---- MODULE Spec2Model ----
(***************************************************************************)
(* A model of dioxide, a linter for Go sources: the analysis passes        *)
(* (src/analyzer), the autofix engine (src/fixes) and the driver           *)
(* (run_analysis, apply_fixes).                                            *)
(*                                                                         *)
(* Text is a sequence of symbols.  A symbol stands for one byte of the     *)
(* text or for a word the program never looks into (a keyword, an          *)
(* identifier, a fragment of a message literal); "\n" is the line break.   *)
(* The syntax tree comes from an external parser: the model reads the      *)
(* nodes of a file off its lines with a small line grammar (NodeOfLine),   *)
(* and takes the names the program hands to the tree facade (node kinds,   *)
(* field names) and the file extension to denote the grammar's kinds and   *)
(* fields.  Every other string comparison is the literal one of the        *)
(* source, its blanks included.                                            *)
(***************************************************************************)
EXTENDS Integers, Sequences, FiniteSets, TLC

(***************************************************************************)
(* Text helpers (Rust's str methods over sequences of symbols).            *)
(***************************************************************************)

\* str::contains: needle occurs as a contiguous run of hay.
Contains(hay, needle) ==
    \E i \in 0..(Len(hay) - Len(needle)) :
        \A j \in 1..Len(needle) : hay[i + j] = needle[j]

\* str::starts_with
StartsWith(s, p) ==
    /\ Len(p) <= Len(s)
    /\ \A j \in 1..Len(p) : s[j] = p[j]

\* str::ends_with
EndsWith(s, p) ==
    /\ Len(p) <= Len(s)
    /\ \A j \in 1..Len(p) : s[Len(s) - Len(p) + j] = p[j]

\* The elements of a sequence.
Range(s) == {s[i] : i \in 1..Len(s)}

\* All sequences without repetition over S of length at most n.
RECURSIVE DistinctSeqs(_, _)
DistinctSeqs(S, n) ==
    IF n = 0 THEN {<<>>}
    ELSE LET shorter == DistinctSeqs(S, n - 1)
         IN  shorter \cup
             {Append(sx[1], sx[2]) :
                 sx \in {tx \in shorter \X S :
                            Len(tx[1]) = n - 1 /\ tx[2] \notin Range(tx[1])}}

\* The enumerations of a finite set (the orders a HashSet/HashMap may iterate in).
Perms(S) == {s \in DistinctSeqs(S, Cardinality(S)) : Len(s) = Cardinality(S)}

\* str::trim_matches('"')
RECURSIVE TrimQuotes(_)
TrimQuotes(s) ==
    IF s = <<>> THEN s
    ELSE IF Head(s) = "\"" THEN TrimQuotes(Tail(s))
    ELSE IF s[Len(s)] = "\"" THEN TrimQuotes(SubSeq(s, 1, Len(s) - 1))
    ELSE s

IsSpace(c) == c \in {" ", "\t", "\n"}

\* str::trim
RECURSIVE Trim(_)
Trim(s) ==
    IF s = <<>> THEN s
    ELSE IF IsSpace(Head(s)) THEN Trim(Tail(s))
    ELSE IF IsSpace(s[Len(s)]) THEN Trim(SubSeq(s, 1, Len(s) - 1))
    ELSE s

\* str::lines: the pieces between line breaks; a final empty piece is dropped.
LineStarts(c) == {s \in 1..Len(c) : s = 1 \/ c[s - 1] = "\n"}

LineEnd(c, s) ==
    LET brk == {i \in s..Len(c) : c[i] = "\n"}
    IN  IF brk = {} THEN Len(c)
        ELSE (CHOOSE i \in brk : \A j \in brk : i <= j) - 1

Lines(c) ==
    LET starts == LineStarts(c)
    IN  [k \in 1..Cardinality(starts) |->
            LET s == CHOOSE t \in starts :
                        Cardinality({u \in starts : u < t}) = k - 1
            IN  SubSeq(c, s, LineEnd(c, s))]

\* [&str]::join
RECURSIVE Join(_, _)
Join(ls, sep) ==
    IF ls = <<>> THEN <<>>
    ELSE IF Len(ls) = 1 THEN ls[1]
    ELSE ls[1] \o sep \o Join(Tail(ls), sep)

(***************************************************************************)
(* Paths.  A path is a sequence of symbols: "/" separates the components,  *)
(* "." the extension of the file name.                                     *)
(***************************************************************************)

SlashIdx(p) == {i \in 1..Len(p) : p[i] = "/"}

\* Path::parent, as a string: the path without its last component.
Parent(p) ==
    IF SlashIdx(p) = {} THEN <<>>
    ELSE LET last == CHOOSE i \in SlashIdx(p) : \A j \in SlashIdx(p) : j <= i
         IN  IF last = 1 THEN <<"/">> ELSE SubSeq(p, 1, last - 1)

\* Path::extension of the file name.
Extension(p) ==
    IF Len(p) >= 2 /\ p[Len(p) - 1] = "." THEN p[Len(p)] ELSE ""

is_go_file(p) == Extension(p) = "go "

extract_package_path(file_path) ==
    LET hits == {i \in 1..(Len(file_path) - 2) :
                    SubSeq(file_path, i, i + 2) = <<"/", "src", "/">>}
    IN  IF hits # {}
        THEN LET src_idx == CHOOSE i \in hits : \A j \in hits : i <= j
                 after_src == SubSeq(file_path, src_idx + 3, Len(file_path))
             IN  IF Parent(after_src) = <<"/">> THEN <<>> ELSE Parent(after_src)
        ELSE Parent(file_path)

InInternal(p) == Contains(p, <<"/", "internal", "/">>)

(***************************************************************************)
(* The syntax tree of a text.  One node per line, read off the trimmed     *)
(* line; the kinds and fields carry the names the program asks the tree    *)
(* facade for.                                                             *)
(***************************************************************************)

Punct == {" ", "\t", "\n", "\"", "(", ")", "{", "}", ".", ",", ":=", "=",
          "/", "//", ";"}
Keywords == {"package", "import", "func", "var", "if", "for", "switch"}

\* A Go identifier (the blank identifier "_" included).
IsIdent(x) == x \notin Punct \cup Keywords

NoNode == [kind |-> "none", parent |-> "source_file", name |-> "", path |-> <<>>,
           alias |-> "", operand |-> "", rhs |-> ""]

IsQuoted(t) == Len(t) >= 2 /\ t[1] = "\"" /\ t[Len(t)] = "\""

\* The inside of an import block: "x" or alias "x".
SpecOfText(t) ==
    IF IsQuoted(t)
    THEN [NoNode EXCEPT !.kind = "import_spec ", !.path = t]
    ELSE IF Len(t) >= 4 /\ t[2] = " " /\ IsQuoted(SubSeq(t, 3, Len(t)))
              /\ (IsIdent(t[1]) \/ t[1] = ".")
    THEN [NoNode EXCEPT !.kind = "import_spec ", !.alias = t[1],
                        !.path = SubSeq(t, 3, Len(t))]
    ELSE [NoNode EXCEPT !.kind = "ERROR "]

\* The node a line outside an import block stands for.
NodeOfLine(t) ==
    IF t = <<>> THEN NoNode
    ELSE IF t[1] = "//" THEN [NoNode EXCEPT !.kind = "comment"]
    ELSE IF t = <<"}">> THEN [NoNode EXCEPT !.kind = "block_close"]
    ELSE IF Len(t) = 3 /\ t[1] = "package" /\ t[2] = " " /\ IsIdent(t[3])
    THEN [NoNode EXCEPT !.kind = "package_clause ", !.name = t[3]]
    ELSE IF t = <<"import", " ", "(">> THEN [NoNode EXCEPT !.kind = "import_open"]
    ELSE IF Len(t) >= 3 /\ t[1] = "import" /\ t[2] = " "
    THEN [SpecOfText(SubSeq(t, 3, Len(t))) EXCEPT !.parent = "import_declaration "]
    ELSE IF Len(t) >= 5 /\ t[1] = "func" /\ t[2] = " " /\ IsIdent(t[3])
              /\ t[4] = "(" /\ t[5] = ")"
    THEN [NoNode EXCEPT !.kind = "function_declaration ", !.name = t[3]]
    ELSE IF Len(t) = 3 /\ IsIdent(t[1]) /\ t[2] = "(" /\ t[3] = ")"
    THEN [NoNode EXCEPT !.kind = "call_expression ", !.name = t[1]]
    ELSE IF Len(t) = 5 /\ IsIdent(t[1]) /\ t[2] = "." /\ IsIdent(t[3])
              /\ t[4] = "(" /\ t[5] = ")"
    THEN [NoNode EXCEPT !.kind = "call_expression ", !.operand = t[1]]
    ELSE IF Len(t) = 5 /\ t[1] = "var" /\ t[2] = " " /\ IsIdent(t[3])
              /\ t[4] = " " /\ IsIdent(t[5])
    THEN [NoNode EXCEPT !.kind = "var_declaration ", !.name = t[3]]
    ELSE IF Len(t) = 5 /\ IsIdent(t[1]) /\ t[2] = " " /\ t[3] = ":="
              /\ t[4] = " " /\ IsIdent(t[5])
    THEN [NoNode EXCEPT !.kind = "short_var_declaration ", !.name = t[1],
                        !.rhs = t[5]]
    ELSE IF Len(t) >= 6 /\ t[1] = "if" /\ t[2] = " " /\ t[3] = "("
              /\ IsIdent(t[4]) /\ t[5] = ")"
    THEN [NoNode EXCEPT !.kind = "if_statement ", !.rhs = t[4]]
    ELSE IF Len(t) >= 5 /\ t[1] = "if" /\ t[2] = "(" /\ IsIdent(t[3])
              /\ t[4] = ")"
    THEN [NoNode EXCEPT !.kind = "if_statement ", !.rhs = t[3]]
    ELSE [NoNode EXCEPT !.kind = "ERROR "]

\* Line k of ls lies inside an import ( ... ) block.
InImportBlock(ls, k) ==
    \E j \in 1..(k - 1) :
        /\ Trim(ls[j]) = <<"import", " ", "(">>
        /\ \A i \in (j + 1)..(k - 1) : Trim(ls[i]) # <<")">>

\* The nodes of a text, by line (parser::parse_file and the tree it yields).
Nodes(c) ==
    LET ls == Lines(c)
        hasBlock == \E j \in 1..Len(ls) : Trim(ls[j]) = <<"import", " ", "(">>
    IN  [k \in 1..Len(ls) |->
            LET t == Trim(ls[k])
            IN  IF hasBlock /\ InImportBlock(ls, k)
                THEN IF t = <<")">> THEN [NoNode EXCEPT !.kind = "import_close"]
                     ELSE IF t = <<>> THEN NoNode
                     ELSE IF t[1] = "//" THEN [NoNode EXCEPT !.kind = "comment"]
                     ELSE [SpecOfText(t) EXCEPT !.parent = "import_spec_list"]
                ELSE NodeOfLine(t)]

\* GoFile::find_nodes: the lines whose node has the kind, in document order.
find_nodes(c, kind) ==
    LET ns == Nodes(c) IN {k \in 1..Len(ns) : ns[k].kind = kind}

\* The set as the ascending sequence of its elements.
Ascending(S) ==
    [k \in 1..Cardinality(S) |->
        CHOOSE t \in S : Cardinality({u \in S : u < t}) = k - 1]

\* A byte that continues a character of more than one byte.
IsContinuation(b) == b \in {"a9"}

\* str::is_char_boundary
IsCharBoundary(content, offset) ==
    \/ offset = 0
    \/ offset = Len(content)
    \/ offset < Len(content) /\ ~IsContinuation(content[offset + 1])

\* GoFile::get_snippet: what a call does.  The slice content[start..end]
\* panics when start is greater than end or when an offset falls inside a
\* character.
get_snippet(content, start_byte, end_byte) ==
    IF start_byte >= Len(content) \/ end_byte > Len(content)
    THEN [kind |-> "returned", text |-> <<>>]
    ELSE IF \/ start_byte > end_byte
            \/ ~IsCharBoundary(content, start_byte)
            \/ ~IsCharBoundary(content, end_byte)
    THEN [kind |-> "panicked", text |-> <<>>]
    ELSE [kind |-> "returned", text |-> SubSeq(content, start_byte + 1, end_byte)]

(***************************************************************************)
(* State.                                                                  *)
(***************************************************************************)

VARIABLES
    fs,             \* the files: path -> [content, readable, writable]
    marker,         \* the top directory holds an entry "go.mod " or a directory "src "
    config,         \* the configuration of the run
    snippet,        \* the call of get_snippet: [start_byte, end_byte, outcome]; <<>> if none
    issues,         \* the findings collected so far (Vec<Issue>)
    pc,             \* the position of the program
    cur,            \* the file the architecture check runs on
    cycle,          \* what find_cycle returned (<<>> for None)
    root,           \* the path run_analysis was called with
    result,         \* what run_analysis returned: "none", "ok" or "err"
    walkLeft,       \* the directory entries the walk has not yielded yet
    analysed,       \* the files analyze_file has completed on in this run
    idx,            \* the position of a loop of apply_fixes in the finding list
    modified_files, \* apply_fixes: path -> buffer
    fixed_count,    \* apply_fixes: the count it returns
    attempts,       \* the fix attempts made, in order: [issue, fixed, before, after]
    writes,         \* the writes made, in order: [file, ok]
    fs0,            \* the files as they were when apply_fixes was called
    runs,           \* the invocations of the program started so far
    prevFixed,      \* the root of the previous invocation if its fixes were all written
    disturbed       \* a file lost its read permission after the analysis

vars == <<fs, marker, config, snippet, issues, pc, cur, cycle, root, result,
          walkLeft,
          analysed, idx, modified_files, fixed_count, attempts, writes, fs0,
          runs, prevFixed, disturbed>>

\* The variables of one invocation besides pc and issues.
locals == <<root, result, walkLeft, analysed, idx, modified_files, fixed_count,
            attempts, writes, fs0>>

\* The directory every file of the model lives under.
Top == <<"/", "w">>

Issue(file_path, line, issue_type, severity, message, code, fix_available) ==
    [file_path |-> file_path, line |-> line, issue_type |-> issue_type,
     severity |-> severity, message |-> message, code |-> code,
     fix_available |-> fix_available]

\* The values of the variables of an invocation before it starts.
Locals0 ==
    /\ root = <<>>
    /\ result = "none"
    /\ walkLeft = {}
    /\ analysed = {}
    /\ idx = 0
    /\ modified_files = <<>>
    /\ fixed_count = 0
    /\ attempts = <<>>
    /\ writes = <<>>
    /\ fs0 = <<>>

\* parser::parse_file succeeds: the file exists and can be read.
CanParse(files, p) == p \in DOMAIN files /\ files[p].readable

(***************************************************************************)
(* architecture.rs: dependency graph and cycle finder.                     *)
(***************************************************************************)

find_project_root(file_path) == IF marker THEN Top ELSE Parent(file_path)

\* The lines of the import specs that have a path, in document order.
ImportSpecLines(c) == Ascending(find_nodes(c, "import_spec "))

HasPackageName(c) == find_nodes(c, "package_clause ") # {}

\* The files the walk of project_dir hands to the graph builder.
GraphFiles(files, project_dir) ==
    {p \in DOMAIN files :
        /\ StartsWith(p, project_dir \o <<"/">>)
        /\ is_go_file(p)
        /\ CanParse(files, p)
        /\ HasPackageName(files[p].content)}

FileImports(c) ==
    LET ns == Nodes(c)
    IN  {TrimQuotes(ns[k].path) : k \in {j \in 1..Len(ns) : ns[j].kind = "import_spec "}}

\* dependency_graph: package path -> the import paths of the package's files.
BuildGraph(files, project_dir) ==
    LET gf == GraphFiles(files, project_dir)
    IN  [pkg \in {extract_package_path(p) : p \in gf} |->
            UNION {FileImports(files[p].content) :
                      p \in {q \in gf : extract_package_path(q) = pkg}}]

\* The orders in which the dependency sets of the graph may be iterated.
RECURSIVE OrdersOver(_, _)
OrdersOver(graph, D) ==
    IF D = {} THEN {<<>>}
    ELSE LET p == CHOOSE q \in D : TRUE
         IN  {(p :> s) @@ o : s \in Perms(graph[p]),
                              o \in OrdersOver(graph, D \ {p})}

Orders(graph) == OrdersOver(graph, DOMAIN graph)

RECURSIVE find_cycle(_, _, _, _, _)
RECURSIVE FirstCycle(_, _, _, _, _, _)
RECURSIVE FirstCycleNoPop(_, _, _, _, _, _)

\* The loop with a path that is not popped: a dependency that was explored
\* without result stays on the path and in the visited set of its siblings.
FirstCycleNoPop(graph, ord, deps, i, new_visited, new_path) ==
    IF i > Len(deps) THEN <<>>
    ELSE LET found == find_cycle(graph, ord, deps[i], new_visited, new_path)
         IN  IF found # <<>> THEN found
             ELSE FirstCycleNoPop(graph, ord, deps, i + 1,
                                  new_visited \cup {deps[i]},
                                  Append(new_path, deps[i]))

\* The loop `for dep in deps` from its i-th element on.
FirstCycle(graph, ord, deps, i, new_visited, new_path) ==
    IF i > Len(deps) THEN <<>>
    ELSE LET found == find_cycle(graph, ord, deps[i], new_visited, new_path)
         IN  IF found # <<>> THEN found
             ELSE FirstCycle(graph, ord, deps, i + 1, new_visited, new_path)

\* find_cycle returning the whole traversal path instead of its slice from
\* the first occurrence of the revisited package.
find_cycle_whole_path(graph, ord, current, visited, path) ==
    IF current \in visited
    THEN IF \E i \in 1..Len(path) : path[i] = current
         THEN Append(path, current)
         ELSE <<>>
    ELSE IF current \in DOMAIN graph
         THEN FirstCycle(graph, ord, ord[current], 1,
                         visited \cup {current}, Append(path, current))
         ELSE <<>>

\* find_cycle; <<>> stands for None (a cycle is never empty).
find_cycle(graph, ord, current, visited, path) ==
    IF current \in visited
    THEN IF \E i \in 1..Len(path) : path[i] = current
         THEN LET start_idx == CHOOSE i \in 1..Len(path) :
                                  /\ path[i] = current
                                  /\ \A j \in 1..(i - 1) : path[j] # current
              IN  Append(SubSeq(path, start_idx, Len(path)), current)
         ELSE <<>>
    ELSE IF current \in DOMAIN graph
         THEN FirstCycle(graph, ord, ord[current], 1,
                         visited \cup {current}, Append(path, current))
         ELSE <<>>

Max(a, b) == IF a >= b THEN a ELSE b

RECURSIVE find_cycle_depth(_, _, _, _, _)
RECURSIVE LoopDepth(_, _, _, _, _, _)
RECURSIVE find_cycle_depth_late(_, _, _, _, _)

\* The deepest frame the loop `for dep in deps` opens from its i-th element
\* on; the loop ends at the first dependency that returns a cycle.
LoopDepth(graph, ord, deps, i, new_visited, new_path) ==
    IF i > Len(deps) THEN 0
    ELSE LET d == find_cycle_depth(graph, ord, deps[i], new_visited, new_path)
         IN  IF find_cycle(graph, ord, deps[i], new_visited, new_path) # <<>> THEN d
             ELSE Max(d, LoopDepth(graph, ord, deps, i + 1, new_visited, new_path))

\* The deepest frame if a revisited package ended the recursion only at its
\* second occurrence on the path.
find_cycle_depth_late(graph, ord, current, visited, path) ==
    IF current \in visited
          /\ Cardinality({i \in 1..Len(path) : path[i] = current}) >= 2
    THEN Len(path) + 1
    ELSE IF current \in DOMAIN graph
         THEN Max(Len(path) + 1,
                  LoopDepth(graph, ord, ord[current], 1,
                            visited \cup {current}, Append(path, current)))
         ELSE Len(path) + 1

\* The deepest frame of the recursion of find_cycle, counting the outermost
\* call as frame 1: the frame of a call is one more than the length of the
\* path it is handed, and each call of the loop opens a frame below it.
find_cycle_depth(graph, ord, current, visited, path) ==
    IF current \in visited THEN Len(path) + 1
    ELSE IF current \in DOMAIN graph
         THEN Max(Len(path) + 1,
                  LoopDepth(graph, ord, ord[current], 1,
                            visited \cup {current}, Append(path, current)))
         ELSE Len(path) + 1

\* find_import_line: the line of the first import spec of the file whose
\* path text contains import_pkg; 0 stands for None.
find_import_line(files, file_path, import_pkg) ==
    IF ~CanParse(files, file_path) THEN 0
    ELSE LET ns == Nodes(files[file_path].content)
             hits == {k \in 1..Len(ns) :
                         /\ ns[k].kind = "import_spec "
                         /\ Contains(ns[k].path, import_pkg)}
         IN  IF hits = {} THEN 0
             ELSE CHOOSE k \in hits : \A j \in hits : k <= j

\* The cycles find_cycle may return from the package of current_file, one
\* for each order the dependency sets may be iterated in.
CyclesFrom(graph, current_file) ==
    {find_cycle(graph, ord, extract_package_path(current_file), {}, <<>>) :
        ord \in Orders(graph)}

\* The findings pushed if a cycle whose import line is not found were
\* reported at the first line of the file.
CycleFindingAnyway(files, current_file, cyc) ==
    LET line == IF cyc = <<>> THEN 0
                ELSE find_import_line(files, current_file, cyc[Len(cyc)])
    IN  IF cyc # <<>>
        THEN << Issue(current_file, IF line # 0 THEN line ELSE 1,
                      "Architecture", "Error",
                      <<"Circular dependency detected: ">> \o Join(cyc, <<" -> ">>),
                      <<"Circular dependency path: ">> \o Join(cyc, <<" -> ">>),
                      FALSE) >>
        ELSE <<>>

\* check_circular_dependencies after find_cycle returned cyc: the findings pushed.
CycleFinding(files, current_file, cyc) ==
    LET line == IF cyc = <<>> THEN 0
                ELSE find_import_line(files, current_file, cyc[Len(cyc)])
    IN  IF cyc # <<>> /\ line # 0
        THEN << Issue(current_file, line, "Architecture", "Error",
                      <<"Circular dependency detected: ">> \o Join(cyc, <<" -> ">>),
                      <<"Circular dependency path: ">> \o Join(cyc, <<" -> ">>),
                      FALSE) >>
        ELSE <<>>

\* check_circular_dependencies: the findings it pushes.
check_circular_dependencies(files, project_dir, current_file, ord) ==
    CycleFinding(files, current_file,
        find_cycle(BuildGraph(files, project_dir), ord,
                   extract_package_path(current_file), {}, <<>>))

(***************************************************************************)
(* config.rs: the rule toggles.                                            *)
(***************************************************************************)

\* The line width of the configurations of the model (rules.syntax.max_line_length).
LineLimit == 10

DefaultConfig ==
    [syntax_enabled |-> TRUE, max_line_length |-> LineLimit,
     dead_code_enabled |-> TRUE, detect_unused_imports |-> TRUE,
     detect_unused_functions |-> TRUE, detect_unused_variables |-> TRUE,
     style_enabled |-> TRUE, enforce_camel_case |-> TRUE,
     space_after_control_statements |-> TRUE, enforce_consistent_naming |-> TRUE,
     architecture_enabled |-> TRUE, enforce_package_boundaries |-> TRUE,
     detect_circular_dependencies |-> TRUE]

(***************************************************************************)
(* syntax.rs                                                               *)
(***************************************************************************)

\* is_fixable_syntax_error
is_fixable_syntax_error(node, node_text) ==
    CASE node.parent = "import_declaration " -> TRUE
      [] node.parent = "function_declaration " ->
            Contains(node_text, <<"func", " ">>) /\ ~Contains(node_text, <<"{">>)
      [] node.parent = "block " -> ~Contains(node_text, <<"}">>)
      [] OTHER -> FALSE

SyntaxErrorMessage(parent_type) ==
    CASE parent_type = "function_declaration " ->
            <<"Syntax error in ", "function ", "declaration ">>
      [] parent_type = "import_declaration " ->
            <<"Syntax error in ", "import ", "statement ">>
      [] parent_type = "var_declaration " ->
            <<"Syntax error in ", "variable ", "declaration ">>
      [] parent_type = "if_statement " -> <<"Syntax error in ", "if ", "statement ">>
      [] parent_type = "for_statement " -> <<"Syntax error in ", "for ", "loop ">>
      [] OTHER -> <<"Syntax error in ", parent_type>>

\* check_syntax_errors: one finding per ERROR node, in document order.
check_syntax_errors(c, path) ==
    LET ns == Nodes(c)
        ls == Lines(c)
        errs == Ascending({k \in 1..Len(ns) : ns[k].kind = "ERROR "})
    IN  [e \in 1..Len(errs) |->
            LET k == errs[e]
            IN  Issue(path, k, "Syntax", "Error", SyntaxErrorMessage(ns[k].parent),
                      Trim(ls[k]), is_fixable_syntax_error(ns[k], Trim(ls[k])))]

\* is_fixable_line_length
is_fixable_line_length(line) ==
    \/ Contains(line, <<",", " ">>)
    \/ Contains(line, <<" ", "+", " ">>)
    \/ Contains(line, <<" ", "&&", " ">>)
    \/ Contains(line, <<" ", "||", " ">>)

\* check_line_length: one finding per line longer than max_line_length.
check_line_length(c, path, cfg) ==
    IF cfg.max_line_length = 0 THEN <<>>
    ELSE LET ls == Lines(c)
             long == Ascending({k \in 1..Len(ls) : Len(ls[k]) > cfg.max_line_length})
         IN  [e \in 1..Len(long) |->
                LET line == ls[long[e]]
                IN  Issue(path, long[e], "Syntax", "Warning",
                          <<"Line too long (", ToString(Len(line)), " > ",
                            ToString(cfg.max_line_length), " characters)">>,
                          line, is_fixable_line_length(line))]

\* syntax::analyze
syntax_analyze(c, path, cfg) ==
    check_syntax_errors(c, path) \o check_line_length(c, path, cfg)

(***************************************************************************)
(* dead_code.rs.  The passes collect the declarations in a HashMap and     *)
(* report in its iteration order: each pass yields the set of the finding  *)
(* sequences it may push.                                                  *)
(***************************************************************************)

\* extract_package_name: the last segment of the unquoted import path.
extract_package_name(import_path) ==
    LET path == TrimQuotes(import_path)
    IN  IF SlashIdx(path) = {} THEN path
        ELSE LET last == CHOOSE i \in SlashIdx(path) : \A j \in SlashIdx(path) : j <= i
             IN  SubSeq(path, last + 1, Len(path))

\* The import specs that enter the map, were no alias skipped.
ImportEntriesAnyAlias(ns) ==
    {k \in 1..Len(ns) : ns[k].kind = "import_spec "}

\* The import specs that enter the map: those with a path whose alias is
\* neither the blank identifier nor the dot.
ImportEntries(ns) ==
    {k \in 1..Len(ns) :
        ns[k].kind = "import_spec " /\ ns[k].alias # "_" /\ ns[k].alias # "."}

\* HashMap::insert by package name: of the specs that share a key the last stays.
ImportsMap(ns) ==
    {k \in ImportEntries(ns) :
        \A j \in ImportEntries(ns) :
            extract_package_name(ns[j].path) = extract_package_name(ns[k].path)
                => j <= k}

\* used_imports: the operands of the selector expressions.
used_imports(ns) ==
    {<<ns[k].operand>> : k \in {j \in 1..Len(ns) : ns[j].operand # ""}}

\* The usage test that looks for the last path segment whatever the alias.
ImportIsUsedByPath(ns, k) ==
    TrimQuotes(extract_package_name(ns[k].path)) \in used_imports(ns)

ImportIsUsed(ns, k) ==
    IF ns[k].alias # ""
    THEN TrimQuotes(<<ns[k].alias>>) \in used_imports(ns)
    ELSE TrimQuotes(extract_package_name(ns[k].path)) \in used_imports(ns)

UnusedImportIssue(ns, path, k) ==
    Issue(path, k, "DeadCode", "Warning",
          <<"Unused import: ">> \o ns[k].path, ns[k].path, TRUE)

\* check_unused_imports
check_unused_imports(c, path) ==
    LET ns == Nodes(c)
        unused == {k \in ImportsMap(ns) : ~ImportIsUsed(ns, k)}
    IN  {[i \in 1..Len(o) |-> UnusedImportIssue(ns, path, o[i])] : o \in Perms(unused)}

\* Identifiers whose first letter is upper case.
UpperIdents == {"Println", "Run", "Exported"}

\* The function declarations that enter the map.
FunctionEntries(ns) ==
    {k \in 1..Len(ns) :
        /\ ns[k].kind = "function_declaration "
        /\ ns[k].name # "main " /\ ns[k].name # "init "
        /\ ns[k].name \notin UpperIdents}

\* HashMap::insert by function name.
FunctionsMap(ns) ==
    {k \in FunctionEntries(ns) :
        \A j \in FunctionEntries(ns) : ns[j].name = ns[k].name => j <= k}

\* used_functions: the call expressions whose function is an identifier.
used_functions(ns) ==
    {ns[k].name : k \in {j \in 1..Len(ns) :
                            ns[j].kind = "call_expression " /\ ns[j].name # ""}}

\* find_function_range and the snippet of the finding: the text of the first
\* declaration of the name (one line in the texts of the model).
FunctionSnippet(ns, ls, name) ==
    LET decls == {k \in 1..Len(ns) :
                     ns[k].kind = "function_declaration " /\ ns[k].name = name}
        first == CHOOSE k \in decls : \A j \in decls : k <= j
    IN  Trim(ls[first])

\* The finding for an unused function under the message of an unused import.
UnusedFunctionIssueAsImport(ns, ls, path, k) ==
    Issue(path, k, "DeadCode", "Warning",
          <<"Unused import: ", ns[k].name>>,
          IF Len(FunctionSnippet(ns, ls, ns[k].name)) > 100
          THEN <<ns[k].name>> ELSE FunctionSnippet(ns, ls, ns[k].name),
          TRUE)

UnusedFunctionIssue(ns, ls, path, k) ==
    Issue(path, k, "DeadCode", "Warning",
          <<"Unused function: ", ns[k].name>>,
          IF Len(FunctionSnippet(ns, ls, ns[k].name)) > 100
          THEN <<ns[k].name>> ELSE FunctionSnippet(ns, ls, ns[k].name),
          TRUE)

\* check_unused_functions
check_unused_functions(c, path) ==
    LET ns == Nodes(c)
        ls == Lines(c)
        unused == {k \in FunctionsMap(ns) : ns[k].name \notin used_functions(ns)}
    IN  {[i \in 1..Len(o) |-> UnusedFunctionIssue(ns, ls, path, o[i])] :
            o \in Perms(unused)}

\* The identifier nodes of a line: [name, parent, field], the kind of the
\* parent node and the field of the parent the identifier is the child of.
\* The name of a var_spec is a direct child (field "name "); the names of a
\* short variable declaration are children of the expression_list that is
\* its field "left ".
Identifiers(node) ==
    CASE node.kind = "function_declaration " ->
            {[name |-> node.name, parent |-> "function_declaration ", field |-> "name "]}
      [] node.kind = "call_expression " /\ node.name # "" ->
            {[name |-> node.name, parent |-> "call_expression ", field |-> "function "]}
      [] node.kind = "call_expression " /\ node.operand # "" ->
            {[name |-> node.operand, parent |-> "selector_expression ",
              field |-> "operand "]}
      [] node.kind = "var_declaration " ->
            {[name |-> node.name, parent |-> "var_spec ", field |-> "name "]}
      [] node.kind = "short_var_declaration " ->
            {[name |-> node.name, parent |-> "expression_list", field |-> ""],
             [name |-> node.rhs, parent |-> "expression_list", field |-> ""]}
      [] node.kind = "if_statement " ->
            {[name |-> node.rhs, parent |-> "parenthesized_expression", field |-> ""]}
      [] OTHER -> {}

\* The names the declaration loops insert: the identifier children of the
\* field "name " of a var_spec (an identifier, which has no children) and of
\* the field "left " of a short variable declaration.
DeclaredVariables(node) ==
    CASE node.kind = "var_declaration " -> {}
      [] node.kind = "short_var_declaration " /\ node.name # "_" -> {node.name}
      [] OTHER -> {}

\* HashMap::insert by variable name.
VariablesMap(ns) ==
    {k \in 1..Len(ns) :
        /\ DeclaredVariables(ns[k]) # {}
        /\ \A j \in 1..Len(ns) : DeclaredVariables(ns[j]) = DeclaredVariables(ns[k])
                                    => j <= k}

\* used_vars: every identifier but the name child of a var_spec and the
\* left child of a short_var_declaration.
used_vars(ns) ==
    {id.name : id \in {x \in UNION {Identifiers(ns[k]) : k \in 1..Len(ns)} :
                          /\ ~(x.parent = "var_spec " /\ x.field = "name ")
                          /\ ~(x.parent = "short_var_declaration " /\ x.field = "left ")}}

UnusedVariableIssue(ns, path, k) ==
    Issue(path, k, "DeadCode", "Warning",
          <<"Unused variable: ", ns[k].name>>, <<ns[k].name>>, TRUE)

\* check_unused_variables
check_unused_variables(c, path) ==
    LET ns == Nodes(c)
        unused == {k \in VariablesMap(ns) : ns[k].name \notin used_vars(ns)}
    IN  {[i \in 1..Len(o) |-> UnusedVariableIssue(ns, path, o[i])] : o \in Perms(unused)}

\* dead_code::analyze
dead_code_analyze(c, path, cfg) ==
    {i \o f \o v :
        i \in IF cfg.detect_unused_imports THEN check_unused_imports(c, path) ELSE {<<>>},
        f \in IF cfg.detect_unused_functions THEN check_unused_functions(c, path)
              ELSE {<<>>},
        v \in IF cfg.detect_unused_variables THEN check_unused_variables(c, path)
              ELSE {<<>>}}

(***************************************************************************)
(* style.rs                                                                *)
(***************************************************************************)

\* Identifiers of at most two characters.
ShortIdents == {"p", "q", "x", "y", "_"}

\* Identifiers the pattern \b[a-z]+_[a-z][a-z0-9]*\b matches.
SnakeIdents == {"my_var", "do_it"}

\* check_identifier_naming
check_identifier_naming(path, line, name, identifier_type) ==
    IF name \in UpperIdents THEN <<>>
    ELSE IF name \in ShortIdents THEN <<>>
    ELSE IF name \in SnakeIdents
    THEN << Issue(path, line, "Style", "Info",
                  <<identifier_type, " name ", "should be camelCase", ": ", name>>,
                  <<name>>, TRUE) >>
    ELSE <<>>

RECURSIVE Concat(_)
Concat(ss) == IF ss = <<>> THEN <<>> ELSE Head(ss) \o Concat(Tail(ss))

\* check_var_naming: the identifier children of the names of the var specs
\* (none: the name is an identifier) and of the left sides of the short
\* variable declarations.
check_var_naming(c, path) ==
    LET ns == Nodes(c)
        shorts == Ascending({k \in 1..Len(ns) : ns[k].kind = "short_var_declaration "})
    IN  Concat([e \in 1..Len(shorts) |->
                   check_identifier_naming(path, shorts[e], ns[shorts[e]].name,
                                           "variable ")])

\* check_func_naming
check_func_naming(c, path) ==
    LET ns == Nodes(c)
        funcs == Ascending({k \in 1..Len(ns) : ns[k].kind = "function_declaration "})
    IN  Concat([e \in 1..Len(funcs) |->
                   check_identifier_naming(path, funcs[e], ns[funcs[e]].name,
                                           "function ")])

\* check_naming_conventions
check_naming_conventions(c, path, cfg) ==
    IF ~cfg.enforce_camel_case THEN <<>>
    ELSE check_var_naming(c, path) \o check_func_naming(c, path)

\* check_control_statement_space
check_control_statement_space(ls, line, keyword, path) ==
    IF Contains(ls[line], keyword \o <<"(">>)
    THEN << Issue(path, line, "Style", "Info",
                  <<"missing space after control statement", ": ">> \o keyword,
                  ls[line], TRUE) >>
    ELSE <<>>

\* check_control_statement_spacing (the texts of the model hold if statements only)
check_control_statement_spacing(c, path, cfg) ==
    IF ~cfg.space_after_control_statements THEN <<>>
    ELSE LET ns == Nodes(c)
             ls == Lines(c)
             ifs == Ascending({k \in 1..Len(ns) : ns[k].kind = "if_statement "})
         IN  Concat([e \in 1..Len(ifs) |->
                        check_control_statement_space(ls, ifs[e], <<"if", " ">>, path)])

\* The line the body of the declaration at line k starts on (the same line
\* in the texts of the model).
BodyLine(ns, k) == k

\* check_brace_style
check_brace_style(c, path) ==
    LET ns == Nodes(c)
        ls == Lines(c)
        far == Ascending({k \in 1..Len(ns) :
                            /\ ns[k].kind \in {"function_declaration ", "if_statement "}
                            /\ BodyLine(ns, k) > k + 1})
    IN  [e \in 1..Len(far) |->
            Issue(path, far[e], "Style", "Info",
                  <<"Opening brace should be on the same line as ", ns[far[e]].kind,
                    " declaration ">>,
                  ls[far[e]], FALSE)]

\* check_indentation
check_indentation(c, path) ==
    LET ls == Lines(c)
        hit == Ascending({k \in 1..Len(ls) :
                            /\ Trim(ls[k]) # <<>>
                            /\ StartsWith(ls[k], <<" ">>)
                            /\ ~StartsWith(ls[k], <<"\t", " ">>)})
    IN  [e \in 1..Len(hit) |->
            Issue(path, hit[e], "Style", "Info",
                  <<"Use tabs for indentation ", "in Go, not spaces ">>,
                  ls[hit[e]], TRUE)]

\* check_consistent_style
check_consistent_style(c, path, cfg) ==
    IF ~cfg.enforce_consistent_naming THEN <<>>
    ELSE check_brace_style(c, path) \o check_indentation(c, path)

\* style::analyze
style_analyze(c, path, cfg) ==
    check_naming_conventions(c, path, cfg)
        \o check_control_statement_spacing(c, path, cfg)
        \o check_consistent_style(c, path, cfg)

(***************************************************************************)
(* architecture.rs: package boundaries, and the pass.                      *)
(***************************************************************************)

\* check_package_boundaries without the rule on /internal/.
BoundaryIssuesSameModuleOnly(ns, path, k) ==
    LET import_path == TrimQuotes(ns[k].path)
        current_package_path == extract_package_path(path)
    IN  IF Contains(import_path, current_package_path)
           /\ ~EndsWith(import_path, current_package_path)
        THEN << Issue(path, k, "Architecture", "Warning",
                      <<"Importing from the same module but different directory: ">>
                          \o import_path \o <<". Consider restructuring.">>,
                      import_path, FALSE) >>
        ELSE <<>>

\* The findings of check_package_boundaries for the import spec at line k.
BoundaryIssues(ns, path, k) ==
    LET import_path == TrimQuotes(ns[k].path)
        current_package_path == extract_package_path(path)
    IN  (IF Contains(import_path, current_package_path)
            /\ ~EndsWith(import_path, current_package_path)
         THEN << Issue(path, k, "Architecture", "Warning",
                       <<"Importing from the same module but different directory: ">>
                           \o import_path \o <<". Consider restructuring.">>,
                       import_path, FALSE) >>
         ELSE <<>>)
        \o
        (IF Contains(import_path, <<"/", "internal", "/">>) /\ ~InInternal(path)
         THEN << Issue(path, k, "Architecture", "Error",
                       <<"Importing from an 'internal' package that should not be imported directly: ">>
                           \o import_path,
                       import_path, FALSE) >>
         ELSE <<>>)

\* check_package_boundaries
check_package_boundaries(c, path) ==
    LET ns == Nodes(c)
        specs == ImportSpecLines(c)
    IN  IF ~HasPackageName(c) THEN <<>>
        ELSE Concat([e \in 1..Len(specs) |-> BoundaryIssues(ns, path, specs[e])])

\* architecture::analyze: the finding sequences it may push.
architecture_analyze(files, c, path, cfg) ==
    {b \o r :
        b \in {IF cfg.enforce_package_boundaries
               THEN check_package_boundaries(c, path) ELSE <<>>},
        r \in IF cfg.detect_circular_dependencies
              THEN {CycleFinding(files, path, cyc) :
                       cyc \in CyclesFrom(BuildGraph(files, find_project_root(path)),
                                          path)}
              ELSE {<<>>}}

(***************************************************************************)
(* analyzer/mod.rs                                                         *)
(***************************************************************************)

\* analyze_file on a file that parses: the finding sequences it may push.
\* analyze_file with the style rules run whether or not they are enabled.
analyze_file_style_ungated(files, path, cfg) ==
    LET c == files[path].content
    IN  {sy \o dc \o st \o ar :
            sy \in {IF cfg.syntax_enabled THEN syntax_analyze(c, path, cfg) ELSE <<>>},
            dc \in IF cfg.dead_code_enabled THEN dead_code_analyze(c, path, cfg)
                   ELSE {<<>>},
            st \in {style_analyze(c, path, cfg)},
            ar \in IF cfg.architecture_enabled
                   THEN architecture_analyze(files, c, path, cfg) ELSE {<<>>}}

analyze_file(files, path, cfg) ==
    LET c == files[path].content
    IN  {sy \o dc \o st \o ar :
            sy \in {IF cfg.syntax_enabled THEN syntax_analyze(c, path, cfg) ELSE <<>>},
            dc \in IF cfg.dead_code_enabled THEN dead_code_analyze(c, path, cfg)
                   ELSE {<<>>},
            st \in {IF cfg.style_enabled THEN style_analyze(c, path, cfg) ELSE <<>>},
            ar \in IF cfg.architecture_enabled
                   THEN architecture_analyze(files, c, path, cfg) ELSE {<<>>}}

\* is_excluded: the default ignore patterns ^\.git/, ^vendor/, _test\.go$ and
\* the default excluded directories.
is_excluded(path) ==
    \/ StartsWith(path, <<".git", "/">>)
    \/ StartsWith(path, <<"vendor", "/">>)
    \/ EndsWith(path, <<"_test", ".", "go">>)
    \/ \E dir \in {"vendor", "node_modules", "build", "dist"} : Contains(path, <<dir>>)

(***************************************************************************)
(* fixes/mod.rs: the transformations.  Each yields [fixed, content]: the   *)
(* value returned and the buffer after the call.                           *)
(***************************************************************************)

\* The separator the syntax and dead-code fixes join the lines with.
BreakBlank == <<"\n", " ">>

\* The separator the style fixes join the lines with.
Break == <<"\n">>

RECURSIVE SubLines(_, _, _)
\* lines[from..=to] (1-based, empty when from > to)
SubLines(lines, from, to) ==
    IF from > to THEN <<>> ELSE <<lines[from]>> \o SubLines(lines, from + 1, to)

\* The buffer with line `line` replaced by fixed_line, the lines joined by sep.
Rebuild(lines, line, fixed_line, sep) ==
    (IF line > 1 THEN Join(SubLines(lines, 1, line - 1), sep) \o sep ELSE <<>>)
        \o fixed_line
        \o (IF line < Len(lines)
            THEN sep \o Join(SubLines(lines, line + 1, Len(lines)), sep)
            ELSE <<>>)

\* str::trim_start_matches("import ")
RECURSIVE TrimStartImport(_)
TrimStartImport(t) ==
    IF StartsWith(t, <<"import", " ">>) THEN TrimStartImport(SubSeq(t, 3, Len(t)))
    ELSE t

\* The line fix_syntax_issue writes for the message, <<>> when no rule applies
\* (a fixed line is never empty: every rule appends or wraps).
SyntaxFixedLine(message, line) ==
    IF Contains(message, <<"missing semicolon ">>) THEN Append(line, ";")
    ELSE IF Contains(message, <<"unmatched parenthesis ">>)
              \/ Contains(message, <<"unclosed parenthesis ">>)
    THEN Append(line, ")")
    ELSE IF Contains(message, <<"missing closing brace ">>)
              \/ Contains(message, <<"unclosed brace ">>)
    THEN Append(line, "}")
    ELSE IF Contains(message, <<"missing closing bracket ">>)
              \/ Contains(message, <<"unclosed bracket ">>)
    THEN Append(line, "]")
    ELSE IF Contains(message, <<"import ">>) /\ Contains(message, <<"syntax error ">>)
    THEN IF ~Contains(line, <<"\"">>) /\ ~Contains(line, <<"(">>)
         THEN <<"import", " ", "\"">> \o Trim(TrimStartImport(Trim(line))) \o <<"\"">>
         ELSE IF Contains(line, <<"\"">>) /\ Contains(line, <<"(">>)
                   /\ ~Contains(line, <<")">>)
         THEN Append(line, ")")
         ELSE <<>>
    ELSE <<>>

\* fix_syntax_issue
fix_syntax_issue(issue, content) ==
    LET lines == Lines(content)
    IN  IF issue.line > Len(lines) THEN [fixed |-> FALSE, content |-> content]
        ELSE LET fixed_line == SyntaxFixedLine(issue.message, lines[issue.line])
             IN  IF fixed_line = <<>> THEN [fixed |-> FALSE, content |-> content]
                 ELSE [fixed |-> TRUE,
                       content |-> Rebuild(lines, issue.line, fixed_line, BreakBlank)]

\* The last place pat starts at within s (str::rfind), 0 for None.
RFind(s, pat) ==
    LET hits == {i \in 1..(Len(s) - Len(pat) + 1) : SubSeq(s, i, i + Len(pat) - 1) = pat}
    IN  IF hits = {} THEN 0 ELSE CHOOSE i \in hits : \A j \in hits : j <= i

\* String::insert of a line break and a tab after place pos.
WrapAfter(line, pos) ==
    SubSeq(line, 1, pos) \o <<"\n", "\t">> \o SubSeq(line, pos + 1, Len(line))

\* The words the pattern (if|for|switch|select)\( starts with.
ControlWords == {"if", "for", "switch", "select"}

\* Regex::replace_all of (if|for|switch|select)\( by "$1 (".
RECURSIVE SpaceControl(_)
SpaceControl(line) ==
    IF line = <<>> THEN <<>>
    ELSE IF Len(line) >= 2 /\ line[1] \in ControlWords /\ line[2] = "("
    THEN <<line[1], " ", "(">> \o SpaceControl(SubSeq(line, 3, Len(line)))
    ELSE <<Head(line)>> \o SpaceControl(Tail(line))

\* The camel-case form of a snake-case identifier.
CamelOf(name) ==
    CASE name = "my_var" -> "myVar"
      [] name = "do_it" -> "doIt"
      [] OTHER -> name

\* The number of blanks the line starts with.
RECURSIVE LeadingSpaces(_)
LeadingSpaces(line) ==
    IF line # <<>> /\ Head(line) = " " THEN 1 + LeadingSpaces(Tail(line)) ELSE 0

Tabs(n) == [i \in 1..n |-> "\t"]

\* The line fix_style_issue writes, <<>> when no rule applies.
StyleFixedLine(message, line, cfg) ==
    IF Contains(message, <<"line too long ">>) /\ cfg.max_line_length > 0
    THEN IF Len(line) > cfg.max_line_length
         THEN LET head == SubSeq(line, 1, cfg.max_line_length)
              IN  IF RFind(head, <<",", " ">>) # 0
                  THEN WrapAfter(line, RFind(head, <<",", " ">>))
                  ELSE IF RFind(head, <<" ">>) # 0
                  THEN WrapAfter(line, RFind(head, <<" ">>))
                  ELSE <<>>
         ELSE <<>>
    ELSE IF Contains(message, <<"missing space after control statement", " ">>)
              /\ cfg.space_after_control_statements
    THEN IF SpaceControl(line) # line THEN SpaceControl(line) ELSE <<>>
    ELSE IF Contains(message, <<"should be camelCase", " ">>) /\ cfg.enforce_camel_case
    THEN IF \E i \in 1..Len(line) : line[i] \in SnakeIdents
         THEN [i \in 1..Len(line) |-> CamelOf(line[i])]
         ELSE <<>>
    ELSE IF Contains(message, <<"Use tabs for indentation ">>)
    THEN IF LeadingSpaces(line) > 0
         THEN Tabs((LeadingSpaces(line) + 3) \div 4)
                  \o SubSeq(line, LeadingSpaces(line) + 1, Len(line))
         ELSE <<>>
    ELSE <<>>

\* fix_style_issue
\* fix_style_issue that puts the lines together again whether or not the
\* line was fixed.
fix_style_issue_rebuilds(issue, content, cfg) ==
    LET lines == Lines(content)
    IN  IF issue.line > Len(lines) THEN [fixed |-> FALSE, content |-> content]
        ELSE LET fixed_line == StyleFixedLine(issue.message, lines[issue.line], cfg)
             IN  [fixed |-> fixed_line # <<>>,
                  content |-> Rebuild(lines, issue.line,
                                      IF fixed_line = <<>> THEN lines[issue.line]
                                      ELSE fixed_line,
                                      Break)]

fix_style_issue(issue, content, cfg) ==
    LET lines == Lines(content)
    IN  IF issue.line > Len(lines) THEN [fixed |-> FALSE, content |-> content]
        ELSE LET fixed_line == StyleFixedLine(issue.message, lines[issue.line], cfg)
             IN  IF fixed_line = <<>> THEN [fixed |-> FALSE, content |-> content]
                 ELSE [fixed |-> TRUE,
                       content |-> Rebuild(lines, issue.line, fixed_line, Break)]

\* The places a match of import\s*\(\s*((?:.|\n)*?)\s*\) can start at: the
\* word, blanks, the parenthesis, and some closing parenthesis after it.
RECURSIVE SkipSpace(_, _)
SkipSpace(c, i) ==
    IF i <= Len(c) /\ IsSpace(c[i]) THEN SkipSpace(c, i + 1) ELSE i

BlockStarts(c) ==
    {i \in 1..Len(c) :
        /\ c[i] = "import"
        /\ SkipSpace(c, i + 1) <= Len(c)
        /\ c[SkipSpace(c, i + 1)] = "("
        /\ \E r \in (SkipSpace(c, i + 1) + 1)..Len(c) : c[r] = ")"}

\* Regex::captures: the leftmost match, as [from, to, first, last] with
\* first..last the captured group; from = 0 for None.
BlockMatch(c) ==
    IF BlockStarts(c) = {} THEN [from |-> 0, to |-> 0, first |-> 0, last |-> 0]
    ELSE LET i == CHOOSE x \in BlockStarts(c) : \A y \in BlockStarts(c) : x <= y
             open == SkipSpace(c, i + 1)
             first == SkipSpace(c, open + 1)
             close == CHOOSE r \in (open + 1)..Len(c) :
                          /\ c[r] = ")"
                          /\ \A r2 \in (open + 1)..(r - 1) : c[r2] # ")"
             body == {k \in first..(close - 1) : ~IsSpace(c[k])}
             last == IF body = {} THEN first - 1
                     ELSE CHOOSE k \in body : \A k2 \in body : k2 <= k
         IN  [from |-> i, to |-> close, first |-> first, last |-> last]

\* Vec::retain in the block strategy: the lines of the block that stay.
RetainLine(line, import_text) ==
    LET trimmed == Trim(line)
        contains_import == Contains(trimmed, import_text)
                               \/ trimmed = <<"\"">> \o import_text \o <<"\"">>
    IN  ~contains_import \/ StartsWith(trimmed, <<"//">>)

\* The lines of ls the predicate keeps, in order.
RECURSIVE Retained(_, _)
Retained(ls, import_text) ==
    IF ls = <<>> THEN <<>>
    ELSE (IF RetainLine(Head(ls), import_text) THEN <<Head(ls)>> ELSE <<>>)
             \o Retained(Tail(ls), import_text)

\* Each line followed by a line break.
RECURSIVE EachWithBreak(_)
EachWithBreak(ls) ==
    IF ls = <<>> THEN <<>> ELSE Head(ls) \o <<"\n">> \o EachWithBreak(Tail(ls))

\* The block strategy of the unused-import fix.
RemoveFromBlock(content, import_text) ==
    LET m == BlockMatch(content)
        import_lines == Lines(SubSeq(content, m.first, m.last))
        kept == Retained(import_lines, import_text)
        new_imports == Join(kept, <<"\n">>)
        replacement == IF Trim(new_imports) = <<>> THEN <<>>
                       ELSE <<"import", " ", "(", "\n">> \o new_imports \o <<"\n", ")">>
    IN  IF m.from # 0 /\ Len(kept) < Len(import_lines)
        THEN [fixed |-> TRUE,
              content |-> SubSeq(content, 1, m.from - 1) \o replacement
                              \o SubSeq(content, m.to + 1, Len(content))]
        ELSE [fixed |-> FALSE, content |-> content]

\* The single-line strategy of the unused-import fix.
RemoveSingleLine(content, import_text) ==
    LET import_with_package == <<"import", " ", "\"">> \o import_text \o <<"\"">>
        lines == Lines(content)
        kept == SelectSeq(lines, LAMBDA l : Trim(l) # import_with_package)
    IN  IF Contains(content, import_with_package) /\ Len(kept) < Len(lines)
        THEN [fixed |-> TRUE, content |-> EachWithBreak(kept)]
        ELSE [fixed |-> FALSE, content |-> content]

\* The line-by-line strategy of the unused-import fix.
RemoveIssueLine(content, line, import_text) ==
    LET lines == Lines(content)
    IN  IF Contains(Trim(lines[line]), import_text)
        THEN [fixed |-> TRUE,
              content |->
                  (IF line > 1
                   THEN Join(SubLines(lines, 1, line - 1), BreakBlank) \o BreakBlank
                   ELSE <<>>)
                  \o (IF line < Len(lines)
                      THEN Join(SubLines(lines, line + 1, Len(lines)), BreakBlank)
                      ELSE <<>>)]
        ELSE [fixed |-> FALSE, content |-> content]

\* The comment wrapping of an unused variable or function.
CommentOut(content, line) ==
    LET lines == Lines(content)
    IN  (IF line > 1
         THEN Join(SubLines(lines, 1, line - 1), BreakBlank) \o BreakBlank
         ELSE <<>>)
        \o <<"// Commented out unused code", "\n">>
        \o lines[line]
        \o <<"\n", "// End of commented code", "\n">>
        \o (IF line < Len(lines)
            THEN BreakBlank \o Join(SubLines(lines, line + 1, Len(lines)), BreakBlank)
            ELSE <<>>)

\* fix_dead_code_issue
fix_dead_code_issue(issue, content) ==
    LET lines == Lines(content)
        import_text == TrimQuotes(issue.code)
    IN  IF issue.line > Len(lines) THEN [fixed |-> FALSE, content |-> content]
        ELSE IF Contains(issue.message, <<"unused import ">>)
        THEN IF RemoveFromBlock(content, import_text).fixed
             THEN RemoveFromBlock(content, import_text)
             ELSE IF RemoveSingleLine(content, import_text).fixed
             THEN RemoveSingleLine(content, import_text)
             ELSE RemoveIssueLine(content, issue.line, import_text)
        ELSE IF Contains(issue.message, <<"unused variable ">>)
                  \/ Contains(issue.message, <<"unused function ">>)
        THEN [fixed |-> TRUE, content |-> CommentOut(content, issue.line)]
        ELSE [fixed |-> FALSE, content |-> content]

(***************************************************************************)
(* The cycle finder on its own: a project of three packages, one file      *)
(* each, with every choice of imports among the three.                     *)
(***************************************************************************)

\* Most import declarations in one file of the cycle projects.
MaxImports == 2

PkgP == <<"p">>
PkgQ == <<"q">>
PkgPQ == <<"p", "q">>
Pkgs == {PkgP, PkgQ, PkgPQ}

FileOf(pkg) == Top \o <<"/", "src", "/">> \o pkg \o <<"/", "f", ".", "go ">>

ImportLine(pkg) == <<"import", " ", "\"">> \o pkg \o <<"\"", "\n">>

RECURSIVE ImportLines(_)
ImportLines(imps) ==
    IF imps = <<>> THEN <<>>
    ELSE ImportLine(Head(imps)) \o ImportLines(Tail(imps))

\* A file of package pkg that imports imps, one declaration per line.
CycleText(pkg, imps) ==
    <<"package", " ", "main", "\n">> \o ImportLines(imps)

CycleFile(pkg, imps) ==
    [content |-> CycleText(pkg, imps), readable |-> TRUE, writable |-> TRUE]

CycleFiles == {FileOf(pkg) : pkg \in Pkgs}

\* The import lists of a file: every set of at most MaxImports packages, in
\* the order of PkgOrder.
PkgOrder == <<PkgP, PkgQ, PkgPQ>>
ImportLists ==
    {SelectSeq(PkgOrder, LAMBDA x : x \in S) :
        S \in {T \in SUBSET Pkgs : Cardinality(T) <= MaxImports}}

InitCycle ==
    /\ \E imps \in [Pkgs -> ImportLists] :
          fs = [p \in CycleFiles |->
                   LET pkg == CHOOSE q \in Pkgs : FileOf(q) = p
                   IN  CycleFile(pkg, imps[pkg])]
    /\ marker \in BOOLEAN
    /\ config = DefaultConfig
    /\ snippet = <<>>
    /\ issues = <<>>
    /\ pc = "idle"
    /\ cur = <<>>
    /\ cycle = <<>>
    /\ Locals0
    /\ runs = 1
    /\ prevFixed = <<>>
    /\ disturbed = FALSE

\* One run of check_circular_dependencies on current_file.
CheckCircular(current_file) ==
    /\ pc = "idle"
    /\ \E cyc \in CyclesFrom(BuildGraph(fs, find_project_root(current_file)),
                             current_file) :
          /\ cycle' = cyc
          /\ issues' = issues \o CycleFinding(fs, current_file, cyc)
    /\ cur' = current_file
    /\ pc' = "checked"
    /\ UNCHANGED <<fs, marker, config, snippet, locals, runs, prevFixed, disturbed>>

NextCycle == \E f \in CycleFiles : CheckCircular(f)

SpecCycle == InitCycle /\ [][NextCycle]_vars

(***************************************************************************)
(* Claims about the cycle finder (checked under SpecCycle).                *)
(***************************************************************************)

\* The dependency graph the check of the current file built.
CurGraph == BuildGraph(fs, find_project_root(cur))

Edge(graph, p, q) == p \in DOMAIN graph /\ q \in graph[p]

\* The packages reachable from p in one or more steps.
RECURSIVE ReachIn(_, _, _)
ReachIn(graph, S, n) ==
    IF n = 0 THEN S
    ELSE ReachIn(graph,
                 S \cup UNION {graph[q] : q \in S \cap DOMAIN graph}, n - 1)

ReachFrom(graph, p) ==
    IF p \in DOMAIN graph
    THEN ReachIn(graph, graph[p], Cardinality(DOMAIN graph))
    ELSE {}

Acyclic(graph) == \A p \in DOMAIN graph : p \notin ReachFrom(graph, p)

\* The graph holds the cycle p -> q -> pq -> p or p -> pq -> q -> p.
HasThreeCycle(graph) ==
    \/ Edge(graph, PkgP, PkgQ) /\ Edge(graph, PkgQ, PkgPQ) /\ Edge(graph, PkgPQ, PkgP)
    \/ Edge(graph, PkgP, PkgPQ) /\ Edge(graph, PkgPQ, PkgQ) /\ Edge(graph, PkgQ, PkgP)

\* C1: in a graph that contains a cycle through the three packages, the
\* check on a file of any of the three pushes exactly one finding, of
\* category Architecture and severity Error, for a non-empty cycle.
C1_CycleReportedFromEachPackage ==
    (pc = "checked" /\ HasThreeCycle(CurGraph)) =>
        /\ cycle # <<>>
        /\ Len(issues) = 1
        /\ issues[1].file_path = cur
        /\ issues[1].issue_type = "Architecture"
        /\ issues[1].severity = "Error"

\* C2: in an acyclic dependency graph, from every start package and in every
\* iteration order, find_cycle returns None and no finding is pushed.
C2_AcyclicNoFinding ==
    (pc = "checked" /\ Acyclic(CurGraph)) => (cycle = <<>> /\ issues = <<>>)

\* A check has run from a package whose two dependencies share a dependency:
\* the traversal meets a package twice without a cycle.
C2_Witness ==
    /\ pc = "checked"
    /\ Acyclic(CurGraph)
    /\ \E p \in DOMAIN CurGraph, q \in DOMAIN CurGraph, r \in Pkgs :
          /\ p = extract_package_path(cur)
          /\ q # p /\ r # q /\ r # p
          /\ {q, r} \subseteq CurGraph[p]
          /\ r \in CurGraph[q]
    /\ cycle = <<>>

\* No import spec of the file has a path that contains the package.
NoImportContains(files, file_path, pkg) ==
    \A k \in 1..Len(Nodes(files[file_path].content)) :
        Nodes(files[file_path].content)[k].kind = "import_spec " =>
            ~Contains(Nodes(files[file_path].content)[k].path, pkg)

\* C21: when find_cycle returned a cycle and no import path of the
\* originating file contains the last element of the cycle, the check has
\* returned and has pushed no finding.
C21_LookupFailureDropsFinding ==
    (/\ pc = "checked"
     /\ cycle # <<>>
     /\ NoImportContains(fs, cur, cycle[Len(cycle)])) => issues = <<>>

\* The check has returned for a file of package p that imports q, in a
\* project where q imports p: the cycle p -> q -> p ends in p, which the file
\* does not import.
C21_Witness ==
    /\ pc = "checked"
    /\ cur = FileOf(PkgP)
    /\ cycle = <<PkgP, PkgQ, PkgP>>
    /\ NoImportContains(fs, cur, PkgP)
    /\ issues = <<>>

\* C25: a cycle find_cycle returns starts and ends with the same package,
\* the revisited one; before that last element no package occurs twice (it
\* is a slice of the traversal path); every consecutive pair in it is an
\* edge of the dependency graph; and it is reached from the start package.
C25_CycleIsPathSlice ==
    (pc = "checked" /\ cycle # <<>>) =>
        /\ Len(cycle) >= 2
        /\ cycle[1] = cycle[Len(cycle)]
        /\ \A i, j \in 1..(Len(cycle) - 1) : cycle[i] = cycle[j] => i = j
        /\ \A i \in 1..(Len(cycle) - 1) : Edge(CurGraph, cycle[i], cycle[i + 1])
        /\ cycle[1] \in {extract_package_path(cur)}
                           \cup ReachFrom(CurGraph, extract_package_path(cur))

\* find_cycle has returned a cycle that does not pass through the start
\* package: the slice is a proper suffix of the traversal path.
C25_Witness ==
    /\ pc = "checked"
    /\ Len(cycle) = Cardinality(Pkgs)
    /\ \A i \in 1..Len(cycle) : cycle[i] # extract_package_path(cur)

\* The distinct package identifiers of a graph: its keys and its import paths.
PackageIdentifiers(graph) == DOMAIN graph \cup UNION {graph[p] : p \in DOMAIN graph}

\* The deepest frame of find_cycle from the package of the current file, in
\* each order the dependency sets may be iterated in.
Depths ==
    {find_cycle_depth(CurGraph, ord, extract_package_path(cur), {}, <<>>) :
        ord \in Orders(CurGraph)}

\* C28: on every dependency graph of the model (with self-loops, with
\* cycles that pass or do not pass through the start package, without
\* cycles) find_cycle returns, and its recursion is never deeper than the
\* number of distinct package identifiers plus one.
C28_RecursionBounded ==
    pc = "checked" =>
        \A d \in Depths : d <= Cardinality(PackageIdentifiers(CurGraph)) + 1

\* find_cycle has returned on a graph with a self-loop and a cycle that does
\* not pass through the start package, after a recursion as deep as the
\* bound allows.
C28_Witness ==
    /\ pc = "checked"
    /\ \E p \in DOMAIN CurGraph : Edge(CurGraph, p, p)
    /\ cycle # <<>> /\ \A i \in 1..Len(cycle) : cycle[i] # extract_package_path(cur)
    /\ Cardinality(PackageIdentifiers(CurGraph)) + 1 \in Depths

(***************************************************************************)
(* The program: run_analysis on a root, then (with --fix and at least one  *)
(* finding) apply_fixes, then possibly a second invocation.                *)
(***************************************************************************)

\* Most invocations of the program in one behaviour.
MaxRuns == 2

F1 == FileOf(PkgP)
F2 == FileOf(PkgQ)
F3 == Top \o <<"/", "vendor", "/", "v", ".", "go ">>
Missing == Top \o <<"/", "nope">>
Roots == {Top, F1, Missing}

PackageLine == <<"package", " ", "main", "\n">>
FuncRun == <<"func", " ", "Run", "(", ")", " ", "{", "\n">>
FuncHelper == <<"func", " ", "helper", "(", ")", " ", "{", "\n">>
Close == <<"}", "\n">>
ImportFmt == <<"import", " ", "\"", "fmt", "\"", "\n">>
ImportInternal(first) ==
    <<"import", " ", "\"", first, "/", "internal", "/", "y", "\"", "\n">>
ImportUtil(first) == <<"import", " ", "\"", first, "/", "util", "\"", "\n">>
SpacesCall == <<" ", " ", "Run", "(", ")", "\n">>
LongComment ==
    <<"//", " ", "x", ",", " ", "y", ",", " ", "x", ",", " ", "y", ",", " ", "x", "\n">>

TextClean == PackageLine \o FuncRun \o Close
TextUnusedImport == PackageLine \o ImportFmt
TextUsedImport ==
    PackageLine \o ImportFmt \o FuncRun
        \o <<"\t", "fmt", ".", "Println", "(", ")", "\n">> \o Close
TextInternal == PackageLine \o ImportInternal("x")
TextInternalOwn == PackageLine \o ImportInternal("p")
TextSpaces == PackageLine \o FuncRun \o SpacesCall \o Close
TextLong == PackageLine \o LongComment
TextUnusedDecls == PackageLine \o FuncHelper \o <<"\t", "x", " ", ":=", " ", "y", "\n">> \o Close
TextSameSegment == PackageLine \o ImportUtil("x") \o ImportUtil("y")
TextImportAndSpaces == PackageLine \o ImportFmt \o FuncRun \o SpacesCall \o Close

\* The contents the first file starts with.
Texts1 ==
    {TextClean, TextUnusedImport, TextUsedImport, TextInternal, TextInternalOwn,
     TextSpaces, TextLong, TextUnusedDecls, TextSameSegment, TextImportAndSpaces}

\* The contents the second file starts with.
Texts2 == {TextClean, TextSpaces, TextUnusedImport}

Init ==
    /\ \E t1 \in Texts1, t2 \in Texts2, w1 \in BOOLEAN, r2 \in BOOLEAN :
          fs = (F1 :> [content |-> t1, readable |-> TRUE, writable |-> w1])
               @@ (F2 :> [content |-> t2, readable |-> r2, writable |-> TRUE])
               @@ (F3 :> [content |-> TextSpaces, readable |-> TRUE, writable |-> TRUE])
    /\ marker \in BOOLEAN
    /\ config = DefaultConfig
    /\ snippet = <<>>
    /\ issues = <<>>
    /\ pc = "idle"
    /\ cur = <<>>
    /\ cycle = <<>>
    /\ Locals0
    /\ runs = 1
    /\ prevFixed = <<>>
    /\ disturbed = FALSE

\* Path::exists that answers true for every path.
PathExistsAlways(files, p) == TRUE

\* Path::exists: a file, or a directory some file lies under.
PathExists(files, p) ==
    \E f \in DOMAIN files :
        StartsWith(f, p) /\ (Len(f) = Len(p) \/ f[Len(p) + 1] = "/")

\* Path::is_file
IsFile(files, p) == p \in DOMAIN files

\* The file entries WalkDir yields under a directory.
Entries(files, dir) == {f \in DOMAIN files : StartsWith(f, dir)}


\* run_analysis up to the walk: the existence check and the single-file case.
RunStart(r) ==
    /\ pc = "idle"
    /\ root' = r
    /\ IF ~PathExists(fs, r)
       THEN /\ result' = "err"
            /\ pc' = "failed"
            /\ UNCHANGED <<issues, walkLeft, analysed>>
       ELSE IF IsFile(fs, r)
       THEN IF ~is_go_file(r)
            THEN /\ result' = "ok"
                 /\ pc' = "analysed"
                 /\ UNCHANGED <<issues, walkLeft, analysed>>
            ELSE IF ~CanParse(fs, r)
            THEN /\ result' = "err"
                 /\ pc' = "failed"
                 /\ UNCHANGED <<issues, walkLeft, analysed>>
            ELSE /\ \E found \in analyze_file(fs, r, config) : issues' = found
                 /\ analysed' = {r}
                 /\ result' = "ok"
                 /\ pc' = "analysed"
                 /\ UNCHANGED walkLeft
       ELSE /\ walkLeft' = Entries(fs, r)
            /\ pc' = "walk"
            /\ UNCHANGED <<issues, result, analysed>>
    /\ UNCHANGED <<fs, marker, config, snippet, cur, cycle, idx, modified_files,
                   fixed_count, attempts, writes, fs0, runs, prevFixed, disturbed>>

\* One entry of the walk.
WalkStep(path) ==
    /\ pc = "walk"
    /\ path \in walkLeft
    /\ walkLeft' = walkLeft \ {path}
    /\ IF IsFile(fs, path) /\ is_go_file(path) /\ ~is_excluded(path)
       THEN IF CanParse(fs, path)
            THEN /\ \E found \in analyze_file(fs, path, config) :
                       issues' = issues \o found
                 /\ analysed' = analysed \cup {path}
                 /\ UNCHANGED <<pc, result>>
            ELSE /\ issues' = <<>>
                 /\ result' = "err"
                 /\ pc' = "failed"
                 /\ UNCHANGED analysed
       ELSE UNCHANGED <<issues, analysed, pc, result>>
    /\ UNCHANGED <<fs, marker, config, snippet, cur, cycle, root, idx, modified_files,
                   fixed_count, attempts, writes, fs0, runs, prevFixed, disturbed>>

\* The walk has yielded every entry: run_analysis returns the findings.
WalkDone ==
    /\ pc = "walk"
    /\ walkLeft = {}
    /\ result' = "ok"
    /\ pc' = "analysed"
    /\ UNCHANGED <<fs, marker, config, snippet, issues, cur, cycle, root, walkLeft,
                   analysed, idx, modified_files, fixed_count, attempts, writes,
                   fs0, runs, prevFixed, disturbed>>

\* Between the analysis and the fixes a file loses its read permission.
Revoke(path) ==
    /\ pc = "analysed"
    /\ ~disturbed
    /\ path \in analysed
    /\ fs' = [fs EXCEPT ![path].readable = FALSE]
    /\ disturbed' = TRUE
    /\ UNCHANGED <<marker, config, snippet, issues, pc, cur, cycle, locals, runs, prevFixed>>

\* main: apply_fixes is called when the analysis found something.
FixStart ==
    /\ pc = "analysed"
    /\ issues # <<>>
    /\ pc' = "read"
    /\ idx' = 1
    /\ fs0' = fs
    /\ UNCHANGED <<fs, marker, config, snippet, issues, cur, cycle, root, result, walkLeft,
                   analysed, modified_files, fixed_count, attempts, writes, runs,
                   prevFixed, disturbed>>

\* The position after the finding at idx: the next finding, or the next loop.
Advance(next) ==
    IF idx < Len(issues) THEN idx' = idx + 1 /\ pc' = pc
    ELSE idx' = 1 /\ pc' = next

\* The buffer of every finding is kept under the vendored file.
BufferKeyVendor(issue) == F3

\* The file a finding's buffer is kept under.
BufferKey(issue) == issue.file_path

\* apply_fixes, first loop: the file of a fixable finding is read once.
ReadStep ==
    /\ pc = "read"
    /\ LET issue == issues[idx]
           file_path == BufferKey(issue)
       IN  IF issue.fix_available /\ file_path \notin DOMAIN modified_files
                /\ fs[file_path].readable
           THEN modified_files' = modified_files @@ (file_path :> fs[file_path].content)
           ELSE UNCHANGED modified_files
    /\ Advance("fix")
    /\ UNCHANGED <<fs, marker, config, snippet, issues, cur, cycle, root, result, walkLeft,
                   analysed, fixed_count, attempts, writes, fs0, runs, prevFixed,
                   disturbed>>

\* The transformation for the category of the finding, with the style fix
\* standing in for the missing fix of the category Architecture.
FixArchitectureAsStyle(issue, content, cfg) ==
    CASE issue.issue_type = "Syntax" -> fix_syntax_issue(issue, content)
      [] issue.issue_type = "DeadCode" -> fix_dead_code_issue(issue, content)
      [] issue.issue_type \in {"Style", "Architecture"} ->
             fix_style_issue(issue, content, cfg)

\* The transformation applied at the last line of the buffer when the
\* recorded line lies beyond it.
FixAtClampedLine(issue, content, cfg) ==
    LET at == [issue EXCEPT !.line = IF issue.line > Len(Lines(content))
                                     THEN Len(Lines(content)) ELSE issue.line]
    IN  CASE issue.issue_type = "Syntax" -> fix_syntax_issue(at, content)
          [] issue.issue_type = "DeadCode" -> fix_dead_code_issue(at, content)
          [] issue.issue_type = "Style" -> fix_style_issue(at, content, cfg)
          [] issue.issue_type = "Architecture" -> [fixed |-> FALSE, content |-> content]

\* The transformation apply_fixes picks for the category of the finding.
Fix(issue, content, cfg) ==
    CASE issue.issue_type = "Syntax" -> fix_syntax_issue(issue, content)
      [] issue.issue_type = "DeadCode" -> fix_dead_code_issue(issue, content)
      [] issue.issue_type = "Style" -> fix_style_issue(issue, content, cfg)
      [] issue.issue_type = "Architecture" -> [fixed |-> FALSE, content |-> content]

\* The count after an attempt that forgets the earlier successes on a failure.
CountedOrReset(count, fixed) == IF fixed THEN count + 1 ELSE 0

\* The count after an attempt.
Counted(count, fixed) == IF fixed THEN count + 1 ELSE count

\* apply_fixes, second loop: one fixable finding whose file was loaded.
FixStep ==
    /\ pc = "fix"
    /\ LET issue == issues[idx]
       IN  IF issue.fix_available /\ issue.file_path \in DOMAIN modified_files
           THEN LET r == Fix(issue, modified_files[issue.file_path], config)
                IN  /\ modified_files' =
                           [modified_files EXCEPT ![issue.file_path] = r.content]
                    /\ fixed_count' = Counted(fixed_count, r.fixed)
                    /\ attempts' =
                           Append(attempts,
                                  [issue |-> idx, fixed |-> r.fixed,
                                   before |-> modified_files[issue.file_path],
                                   after |-> r.content])
           ELSE UNCHANGED <<modified_files, fixed_count, attempts>>
    /\ Advance("write")
    /\ UNCHANGED <<fs, marker, config, snippet, issues, cur, cycle, root, result, walkLeft,
                   analysed, writes, fs0, runs, prevFixed, disturbed>>

\* The third loop forgets the files it has been through.
WrittenNever == {}

\* The files the third loop has been through.
Written == {writes[i].file : i \in 1..Len(writes)}

\* The fixable findings of a file.
issue_count_in_file(file_path) ==
    Cardinality({i \in 1..Len(issues) :
                    issues[i].fix_available /\ issues[i].file_path = file_path})

\* The count after a failed write, subtracted without the comparison.
AfterWriteFailureUnguarded(count, in_file) == count - in_file

\* The count after a failed write of a file with in_file fixable findings.
AfterWriteFailure(count, in_file) ==
    IF in_file <= count THEN count - in_file ELSE count

\* apply_fixes, third loop: one loaded file is written.
WriteStep(file_path) ==
    /\ pc = "write"
    /\ file_path \in DOMAIN modified_files \ Written
    /\ IF fs[file_path].writable
       THEN /\ fs' = [fs EXCEPT ![file_path].content = modified_files[file_path]]
            /\ UNCHANGED fixed_count
       ELSE /\ fixed_count' =
                   AfterWriteFailure(fixed_count, issue_count_in_file(file_path))
            /\ UNCHANGED fs
    /\ writes' = Append(writes, [file |-> file_path, ok |-> fs[file_path].writable])
    /\ UNCHANGED <<marker, config, snippet, issues, pc, cur, cycle, root, result, walkLeft,
                   analysed, idx, modified_files, attempts, fs0, runs, prevFixed,
                   disturbed>>

\* apply_fixes returns fixed_count.
FixDone ==
    /\ pc = "write"
    /\ DOMAIN modified_files \subseteq Written
    /\ pc' = "fixed"
    /\ UNCHANGED <<fs, marker, config, snippet, issues, cur, cycle, locals, runs, prevFixed,
                   disturbed>>

\* Every fixable finding had its file loaded and every loaded file was written.
AllWritten ==
    /\ \A i \in 1..Len(issues) :
          issues[i].fix_available => issues[i].file_path \in DOMAIN modified_files
    /\ \A i \in 1..Len(writes) : writes[i].ok

\* The invocation ends; the next one starts from scratch.
Exit ==
    /\ pc \in {"analysed", "fixed", "failed"}
    /\ runs < MaxRuns
    /\ runs' = runs + 1
    /\ prevFixed' = IF pc = "fixed" /\ AllWritten THEN root ELSE <<>>
    /\ pc' = "idle"
    /\ issues' = <<>>
    /\ root' = <<>>
    /\ result' = "none"
    /\ walkLeft' = {}
    /\ analysed' = {}
    /\ idx' = 0
    /\ modified_files' = <<>>
    /\ fixed_count' = 0
    /\ attempts' = <<>>
    /\ writes' = <<>>
    /\ fs0' = <<>>
    /\ UNCHANGED <<fs, marker, config, snippet, cur, cycle, disturbed>>

Next ==
    \/ \E r \in Roots : RunStart(r)
    \/ \E path \in DOMAIN fs : WalkStep(path)
    \/ WalkDone
    \/ \E path \in DOMAIN fs : Revoke(path)
    \/ FixStart
    \/ ReadStep
    \/ FixStep
    \/ \E path \in DOMAIN fs : WriteStep(path)
    \/ FixDone
    \/ Exit

Spec == Init /\ [][Next]_vars

(***************************************************************************)
(* Claims about the program (checked under Spec).                          *)
(***************************************************************************)

\* The positions in the finding list of the findings of a file.
FindingsOf(f) == {i \in 1..Len(issues) : issues[i].file_path = f}

\* The text without the lines equal to line.
WithoutLine(c, line) ==
    EachWithBreak(SelectSeq(Lines(c), LAMBDA l : l # line))

\* import "fmt" is declared and fmt never qualifies anything.
DeclaresUnusedFmt(c) ==
    /\ Contains(c, ImportFmt)
    /\ ~Contains(c, <<"fmt", ".">>)

\* apply_fixes has returned and wrote file f.
FixedAndWrote(f) ==
    /\ pc = "fixed"
    /\ \E k \in 1..Len(writes) : writes[k].file = f /\ writes[k].ok

\* C3: a file that declares import "fmt" without using it, and has no other
\* finding, yields exactly one DeadCode finding, which is fixable; once
\* apply_fixes has run and written the file, the import line is gone and the
\* rest of the file is as before.
C3_UnusedImportRemoved ==
    \A f \in DOMAIN fs :
        (FixedAndWrote(f) /\ DeclaresUnusedFmt(fs0[f].content)
             /\ Cardinality(FindingsOf(f)) <= 1) =>
            /\ \E i \in FindingsOf(f) :
                  issues[i].issue_type = "DeadCode" /\ issues[i].fix_available
            /\ ~Contains(fs[f].content, ImportFmt)
            /\ fs[f].content = WithoutLine(fs0[f].content, <<"import", " ", "\"", "fmt", "\"">>)

\* The lines of the import specs of a text whose path contains /internal/.
InternalImports(c) ==
    {k \in 1..Len(Nodes(c)) :
        /\ Nodes(c)[k].kind = "import_spec "
        /\ Contains(Nodes(c)[k].path, <<"/", "internal", "/">>)}

\* The Architecture findings of file f for the import at line k.
BoundaryFindings(f, k) ==
    {i \in FindingsOf(f) : issues[i].issue_type = "Architecture" /\ issues[i].line = k}

\* File f lies outside /internal/ and has one import, at line k, from it.
OneInternalImport(f, c, k) ==
    /\ ~InInternal(f)
    /\ InternalImports(c) = {k}

\* No fix attempt on a finding of file f has succeeded.
NoFixOf(f) ==
    \A a \in 1..Len(attempts) :
        issues[attempts[a].issue].file_path = f => ~attempts[a].fixed

\* C4 (as stated): a file outside /internal/ with one import from /internal/
\* gets exactly one Architecture finding for that import, of severity Error
\* and not fixable, and apply_fixes leaves the file unchanged.
C4_ExactlyOneArchitectureFinding ==
    \A f \in DOMAIN fs : \A k \in 1..Len(fs[f].content) :
        (pc \in {"analysed", "fixed"} /\ f \in analysed
             /\ OneInternalImport(f, IF pc = "fixed" THEN fs0[f].content
                                     ELSE fs[f].content, k)) =>
            /\ Cardinality(BoundaryFindings(f, k)) = 1
            /\ \A i \in BoundaryFindings(f, k) :
                  issues[i].severity = "Error" /\ ~issues[i].fix_available
            /\ (pc = "fixed" /\ NoFixOf(f)) => fs[f].content = fs0[f].content

\* The import at line k of text c names the package of file f as a proper
\* part of its path.
ImportsOwnModule(f, c, k) ==
    LET import_path == TrimQuotes(Nodes(c)[k].path)
    IN  /\ Contains(import_path, extract_package_path(f))
        /\ ~EndsWith(import_path, extract_package_path(f))

\* C4 (amended): a file outside /internal/ with one import from /internal/
\* gets exactly one Architecture finding of severity Error for that import,
\* and besides it one Architecture finding of severity Warning exactly when
\* the import path contains the package path of the file without ending with
\* it; none of them is fixable, none is attempted by apply_fixes, and the file
\* is unchanged unless a fix of another finding of the file succeeded.
C4_OneErrorFinding ==
    \A f \in DOMAIN fs : \A k \in 1..Len(fs[f].content) :
        LET c == IF pc = "fixed" THEN fs0[f].content ELSE fs[f].content
            errors == {i \in BoundaryFindings(f, k) : issues[i].severity = "Error"}
            warnings == {i \in BoundaryFindings(f, k) : issues[i].severity = "Warning"}
        IN  (pc \in {"analysed", "fixed"} /\ f \in analysed
                 /\ OneInternalImport(f, c, k)) =>
                /\ Cardinality(errors) = 1
                /\ Cardinality(warnings) = IF ImportsOwnModule(f, c, k) THEN 1 ELSE 0
                /\ BoundaryFindings(f, k) = errors \cup warnings
                /\ \A i \in BoundaryFindings(f, k) : ~issues[i].fix_available
                /\ \A a \in 1..Len(attempts) :
                      attempts[a].issue \notin BoundaryFindings(f, k)
                /\ (pc = "fixed" /\ NoFixOf(f)) => fs[f].content = fs0[f].content

\* apply_fixes has returned on the findings of a file with one import from
\* /internal/ that raised both an Error and a Warning, and has written the file.
C4_Witness ==
    /\ FixedAndWrote(F1)
    /\ OneInternalImport(F1, fs0[F1].content, 2)
    /\ ImportsOwnModule(F1, fs0[F1].content, 2)
    /\ Cardinality(BoundaryFindings(F1, 2)) = 2
    /\ fs[F1].content = fs0[F1].content


\* The names the selector expressions of a text qualify with.
Qualifiers(ns) == {ns[k].operand : k \in 1..Len(ns)} \ {""}

\* The names a text refers to: called, read, or qualified with.
Referenced(ns) ==
    ({ns[k].name : k \in {j \in 1..Len(ns) : ns[j].kind = "call_expression "}}
        \cup {ns[k].rhs : k \in 1..Len(ns)}
        \cup Qualifiers(ns)) \ {""}

\* The lines of the declarations of a text that nothing refers to and that
\* no exclusion rule covers.
UnreferencedDeclarations(c) ==
    LET ns == Nodes(c)
    IN  {k \in 1..Len(ns) :
            \/ /\ ns[k].kind = "import_spec "
               /\ ns[k].alias \notin {"_", "."}
               /\ IF ns[k].alias # "" THEN ns[k].alias \notin Qualifiers(ns)
                  ELSE extract_package_name(ns[k].path) \notin
                           {<<q>> : q \in Qualifiers(ns)}
            \/ /\ ns[k].kind = "function_declaration "
               /\ ns[k].name \notin UpperIdents \cup {"main", "init"}
               /\ ns[k].name \notin Referenced(ns)
            \/ /\ ns[k].kind \in {"var_declaration ", "short_var_declaration "}
               /\ ns[k].name # "_"
               /\ ns[k].name \notin Referenced(ns)}

\* C5: every unreferenced, non-excluded import, function and variable
\* declaration of an analysed file has exactly one DeadCode finding, also
\* when two of them share a name or a last path segment.
C5_OneFindingPerDeclaration ==
    \A f \in DOMAIN fs :
        (pc = "analysed" /\ ~disturbed /\ f \in analysed) =>
            \A k \in UnreferencedDeclarations(fs[f].content) :
                Cardinality({i \in FindingsOf(f) :
                                issues[i].issue_type = "DeadCode"
                                    /\ issues[i].line = k}) = 1

\* C6: while and after apply_fixes runs, a file none of the findings is about
\* is as it was when apply_fixes was called, has no buffer and is not written.
C6_FileWithoutFindingsUntouched ==
    \A f \in DOMAIN fs :
        (pc \in {"read", "fix", "write", "fixed"} /\ FindingsOf(f) = {}) =>
            /\ fs[f] = fs0[f]
            /\ f \notin DOMAIN modified_files
            /\ f \notin Written

\* apply_fixes has returned after rewriting one analysed file while another
\* analysed file had no finding.
C6_Witness ==
    /\ pc = "fixed"
    /\ \E f \in analysed, g \in analysed :
          /\ FindingsOf(f) = {}
          /\ FixedAndWrote(g)
          /\ fs[g].content # fs0[g].content
          /\ fs[f] = fs0[f]

\* The finding reports an unused import.
IsUnusedImport(issue) ==
    issue.issue_type = "DeadCode" /\ StartsWith(issue.message, <<"Unused import: ">>)

\* C7: the analysis that follows an invocation whose fixes were all attempted
\* and written, on the same root, reports no fixable Syntax or Style finding
\* and no fixable unused-import finding.
C7_SecondPassClean ==
    (pc = "analysed" /\ prevFixed # <<>> /\ root = prevFixed) =>
        \A i \in 1..Len(issues) :
            issues[i].fix_available =>
                /\ issues[i].issue_type \notin {"Syntax", "Style"}
                /\ ~IsUnusedImport(issues[i])

\* The files a directory run is to analyse.
Eligible(files, dir) ==
    {f \in Entries(files, dir) : is_go_file(f) /\ ~is_excluded(f)}

\* C8: a directory run ends with a finding list, and every eligible file that
\* can be read and parsed has been analysed, whether or not another file of
\* the directory could not.
C8_WalkSurvivesBadFile ==
    (pc \in {"analysed", "failed"} /\ root = Top) =>
        /\ result = "ok"
        /\ \A f \in Eligible(fs, Top) : CanParse(fs, f) => f \in analysed

\* C9: called with a root that does not exist, run_analysis returns an error,
\* no finding list, and analyses no file.
C9_MissingRootFails ==
    root = Missing =>
        /\ pc = "failed"
        /\ result = "err"
        /\ issues = <<>>
        /\ analysed = {}

\* run_analysis has returned on the root that does not exist.
C9_Witness == root = Missing /\ pc = "failed" /\ result = "err"

\* The fixable findings whose file apply_fixes loaded.
Attemptable ==
    {i \in 1..Len(issues) :
        issues[i].fix_available /\ issues[i].file_path \in DOMAIN modified_files}

\* C10: when apply_fixes returns, every fixable finding whose file was loaded
\* has been attempted once, in list order, whatever the outcome of the
\* attempts before it; and if every write succeeded the count returned is the
\* number of attempts that succeeded.
C10_ContinuesAfterFailedFix ==
    pc = "fixed" =>
        /\ [a \in 1..Len(attempts) |-> attempts[a].issue] = Ascending(Attemptable)
        /\ (\A w \in 1..Len(writes) : writes[w].ok) =>
               fixed_count = Cardinality({a \in 1..Len(attempts) : attempts[a].fixed})

\* apply_fixes has returned after a fix that succeeded, then one that failed,
\* then one on the same file and one on another file that succeeded, and
\* every write succeeded.
C10_Witness ==
    /\ pc = "fixed"
    /\ \A w \in 1..Len(writes) : writes[w].ok
    /\ \E a \in 1..Len(attempts), b \in 1..Len(attempts), d \in 1..Len(attempts) :
          /\ a < b /\ b < d
          /\ attempts[a].fixed /\ ~attempts[b].fixed /\ attempts[d].fixed
          /\ issues[attempts[a].issue].file_path # issues[attempts[b].issue].file_path
          /\ issues[attempts[b].issue].file_path = issues[attempts[d].issue].file_path
    /\ fixed_count = 2


\* C11: apply_fixes returns a count only if no read and no write failed: a
\* file of a fixable finding that cannot be read or written makes it fail.
C11_FailsOnIoError ==
    pc = "fixed" => AllWritten

\* The attempts that succeeded on findings of files whose write succeeded.
KeptSuccesses ==
    {a \in 1..Len(attempts) :
        /\ attempts[a].fixed
        /\ \E w \in 1..Len(writes) :
              writes[w].file = issues[attempts[a].issue].file_path /\ writes[w].ok}

\* C12: the count apply_fixes returns is the number of successful fixes in
\* the files whose write succeeded: a failed write takes back exactly the
\* successes counted for the findings of that file.
C12_WriteFailureSubtractsSuccesses ==
    pc = "fixed" => fixed_count = Cardinality(KeptSuccesses)

\* C20: no file is written twice, and once a file has been written every
\* fixable finding of every loaded file has had its attempt.
C20_WrittenOnceAfterAllAttempts ==
    /\ \A v \in 1..Len(writes), w \in 1..Len(writes) :
          writes[v].file = writes[w].file => v = w
    /\ writes # <<>> =>
          /\ pc \in {"write", "fixed"}
          /\ [a \in 1..Len(attempts) |-> attempts[a].issue] = Ascending(Attemptable)

\* apply_fixes has returned after writing two files, with attempts on both.
C20_Witness ==
    /\ pc = "fixed"
    /\ Len(writes) = 2
    /\ \A w \in 1..Len(writes) :
          \E a \in 1..Len(attempts) :
              issues[attempts[a].issue].file_path = writes[w].file


\* The finding reports an unused function or an unused variable.
IsUnusedDeclaration(issue) ==
    /\ issue.issue_type = "DeadCode"
    /\ \/ StartsWith(issue.message, <<"Unused function: ">>)
       \/ StartsWith(issue.message, <<"Unused variable: ">>)

\* A line that is a comment.
IsCommentLine(l) ==
    l # <<>> /\ Head(l) \in {"//", "// Commented out unused code", "// End of commented code"}

\* after is before with line k kept and wrapped in two comment lines.
WrappedAt(before, after, k) ==
    /\ Len(after) = Len(before) + 2
    /\ \A j \in 1..(k - 1) : after[j] = before[j]
    /\ IsCommentLine(after[k])
    /\ after[k + 1] = before[k]
    /\ IsCommentLine(after[k + 2])
    /\ \A j \in (k + 1)..Len(before) : after[j + 2] = before[j]

\* C18: once apply_fixes has run on the only finding of a file, an
\* unused-function or unused-variable finding of the analysis, and written the
\* file, the declaration line is still there between two comment lines and
\* every other line is as before, in the same order.
C18_UnusedDeclarationWrapped ==
    \A f \in DOMAIN fs :
        (FixedAndWrote(f) /\ Cardinality(FindingsOf(f)) = 1) =>
            \A i \in FindingsOf(f) :
                IsUnusedDeclaration(issues[i]) =>
                    WrappedAt(Lines(fs0[f].content), Lines(fs[f].content),
                              issues[i].line)


(***************************************************************************)
(* The usage resolver on its own: dead_code::analyze on one file made of   *)
(* a package clause and a few lines.                                       *)
(***************************************************************************)

\* Most lines after the package clause in a file of the resolver runs.
MaxDeadLines == 3

\* The lines the files of the resolver runs are made of.
DeadLines ==
    {<<"import", " ", "\"", "fmt", "\"">>,
     <<"import", " ", "_", " ", "\"", "fmt", "\"">>,
     <<"import", " ", ".", " ", "\"", "fmt", "\"">>,
     <<"import", " ", "f", " ", "\"", "fmt", "\"">>,
     <<"func", " ", "helper", "(", ")", " ", "{">>,
     <<"func", " ", "main", "(", ")", " ", "{">>,
     <<"func", " ", "init", "(", ")", " ", "{">>,
     <<"func", " ", "Run", "(", ")", " ", "{">>,
     <<"helper", "(", ")">>,
     <<"fmt", ".", "Println", "(", ")">>,
     <<"f", ".", "Println", "(", ")">>,
     <<"x", " ", ":=", " ", "y">>,
     <<"var", " ", "x", " ", "int">>,
     <<"y", " ", ":=", " ", "x">>}

\* The sequences of at most n lines.
RECURSIVE LineSeqs(_)
LineSeqs(n) ==
    IF n = 0 THEN {<<>>}
    ELSE LineSeqs(n - 1)
             \cup {Append(ls, l) : ls \in {q \in LineSeqs(n - 1) : Len(q) = n - 1},
                                   l \in DeadLines}

DeadTexts == {PackageLine \o EachWithBreak(ls) : ls \in LineSeqs(MaxDeadLines)}

InitDead ==
    /\ \E t \in DeadTexts :
          fs = (F1 :> [content |-> t, readable |-> TRUE, writable |-> TRUE])
    /\ marker = FALSE
    /\ config = DefaultConfig
    /\ snippet = <<>>
    /\ issues = <<>>
    /\ pc = "idle"
    /\ cur = <<>>
    /\ cycle = <<>>
    /\ Locals0
    /\ runs = 1
    /\ prevFixed = <<>>
    /\ disturbed = FALSE

\* dead_code::analyze on the file.
Resolve ==
    /\ pc = "idle"
    /\ \E found \in dead_code_analyze(fs[F1].content, F1, config) : issues' = found
    /\ cur' = F1
    /\ pc' = "resolved"
    /\ UNCHANGED <<fs, marker, config, snippet, cycle, locals, runs, prevFixed, disturbed>>

NextDead == Resolve

SpecDead == InitDead /\ [][NextDead]_vars

(***************************************************************************)
(* Claims about the usage resolver (checked under SpecDead).               *)
(***************************************************************************)

\* The nodes of the file the resolver ran on.
DeadNodes == Nodes(fs[F1].content)

\* The findings at line k whose message starts with the text.
FindingsAt(k, text) ==
    {i \in 1..Len(issues) : issues[i].line = k /\ StartsWith(issues[i].message, <<text>>)}

\* C14: an import whose alias is _ or . has no unused-import finding,
\* whether or not its package name occurs in the file.
C14_BlankAndDotImportsNotReported ==
    pc = "resolved" =>
        \A k \in 1..Len(DeadNodes) :
            (DeadNodes[k].kind = "import_spec " /\ DeadNodes[k].alias \in {"_", "."}) =>
                FindingsAt(k, "Unused import: ") = {}

\* The resolver has run on a file with a blank import and a dot import of a
\* package that nothing in the file qualifies with.
C14_Witness ==
    /\ pc = "resolved"
    /\ \E j \in 1..Len(DeadNodes), k \in 1..Len(DeadNodes) :
          /\ DeadNodes[j].kind = "import_spec " /\ DeadNodes[j].alias = "_"
          /\ DeadNodes[k].kind = "import_spec " /\ DeadNodes[k].alias = "."
    /\ Qualifiers(DeadNodes) = {}
    /\ issues = <<>>

\* C15: a function whose name starts with an uppercase letter, or that is
\* named main or init, has no unused-function finding.
C15_ExportedAndEntryPointsNotReported ==
    pc = "resolved" =>
        \A k \in 1..Len(DeadNodes) :
            (DeadNodes[k].kind = "function_declaration "
                 /\ DeadNodes[k].name \in UpperIdents \cup {"main", "init"}) =>
                FindingsAt(k, "Unused function: ") = {}


\* The alias or the last path segment of the import at line k qualifies
\* something in the file.
AliasOrSegmentAppears(ns, k) ==
    \/ ns[k].alias # "" /\ ns[k].alias \in Qualifiers(ns)
    \/ extract_package_name(ns[k].path) \in {<<q>> : q \in Qualifiers(ns)}

\* C16 (as stated): an import whose alias or whose last path segment
\* qualifies something in the file has no unused-import finding.
C16_UsedByAliasOrSegment ==
    pc = "resolved" =>
        \A k \in 1..Len(DeadNodes) :
            (DeadNodes[k].kind = "import_spec " /\ AliasOrSegmentAppears(DeadNodes, k)) =>
                FindingsAt(k, "Unused import: ") = {}

\* The name the import at line k binds qualifies something in the file: the
\* alias if it has one, its last path segment otherwise.
BoundNameAppears(ns, k) ==
    IF ns[k].alias # "" THEN ns[k].alias \in Qualifiers(ns)
    ELSE extract_package_name(ns[k].path) \in {<<q>> : q \in Qualifiers(ns)}

\* C16 (amended): an import has no unused-import finding if the name it
\* binds (its alias when it has one, its last path segment otherwise)
\* qualifies something in the file; it is reported only when that name
\* qualifies nothing.
C16_UsedByBoundName ==
    pc = "resolved" =>
        \A k \in 1..Len(DeadNodes) :
            (DeadNodes[k].kind = "import_spec " /\ BoundNameAppears(DeadNodes, k)) =>
                FindingsAt(k, "Unused import: ") = {}

\* The resolver has run on a file whose aliased import is used through the
\* alias only, and has reported nothing.
C16_Witness ==
    /\ pc = "resolved"
    /\ \E k \in 1..Len(DeadNodes) :
          DeadNodes[k].kind = "import_spec " /\ DeadNodes[k].alias = "f"
    /\ Qualifiers(DeadNodes) = {"f"}
    /\ issues = <<>>

\* The lines that declare a variable.
VariableDeclarations(ns) ==
    {k \in 1..Len(ns) : ns[k].kind \in {"var_declaration ", "short_var_declaration "}}

\* C17: a variable whose only occurrence in the file is its declaration (the
\* name of a var spec or the left-hand side of a short variable declaration)
\* is reported as unused.
C17_DeclaredOnlyIsReported ==
    pc = "resolved" =>
        \A k \in VariableDeclarations(DeadNodes) :
            (/\ DeadNodes[k].name # "_"
             /\ DeadNodes[k].name \notin Referenced(DeadNodes)
             /\ \A j \in VariableDeclarations(DeadNodes) :
                   DeadNodes[j].name = DeadNodes[k].name => j = k) =>
                FindingsAt(k, "Unused variable: ") # {}

\* The finding is one check_line_length makes.
IsLineTooLong(issue) ==
    issue.issue_type = "Syntax" /\ StartsWith(issue.message, <<"Line too long (">>)

\* Where the claim breaks a line: after the last comma, or else the last
\* space, within the first max symbols; 0 if there is neither.
WrapPoint(line, max) ==
    LET within(ch) == {p \in 1..max : p <= Len(line) /\ line[p] = ch}
        last(S) == CHOOSE p \in S : \A q \in S : q <= p
    IN  IF within(",") # {} THEN last(within(","))
        ELSE IF within(" ") # {} THEN last(within(" "))
        ELSE 0

\* C23: an attempt of apply_fixes on a fixable line-too-long finding of the
\* analyzer succeeds and is counted, and leaves the reported line ending
\* after its last comma, or else its last space, within the maximum width,
\* with the rest of the line on a line of its own.
C23_LongLineWrapped ==
    \A a \in 1..Len(attempts) :
        LET issue == issues[attempts[a].issue]
            before == Lines(attempts[a].before)
            after == Lines(attempts[a].after)
        IN  (IsLineTooLong(issue) /\ issue.fix_available) =>
                /\ attempts[a].fixed
                /\ writes = <<>> => fixed_count >= 1
                /\ Len(after) = Len(before) + 1
                /\ after[issue.line] =
                       SubSeq(before[issue.line], 1,
                              WrapPoint(before[issue.line], config.max_line_length))

\* The lines of the file that hold a node of one of the kinds.
Declarations(kinds) == {k \in 1..Len(DeadNodes) : DeadNodes[k].kind \in kinds}

\* The findings whose message starts with the text.
FindingsOfKind(text) ==
    {i \in 1..Len(issues) : StartsWith(issues[i].message, <<text>>)}

\* C24: for a file without import spec the resolver makes no unused-import
\* finding, for a file without function declaration no unused-function
\* finding, for a file without variable declaration no unused-variable
\* finding, whatever else the file holds.
C24_NoDeclarationNoFinding ==
    pc = "resolved" =>
        /\ Declarations({"import_spec "}) = {} => FindingsOfKind("Unused import: ") = {}
        /\ Declarations({"function_declaration "}) = {} =>
               FindingsOfKind("Unused function: ") = {}
        /\ Declarations({"var_declaration ", "short_var_declaration "}) = {} =>
               FindingsOfKind("Unused variable: ") = {}

\* The resolver has run on a file without import spec and without variable
\* declaration that qualifies a call with a package name and declares a
\* function nothing calls: it has a finding, of the one kind declared.
C24_Witness ==
    /\ pc = "resolved"
    /\ Declarations({"import_spec "}) = {}
    /\ Declarations({"var_declaration ", "short_var_declaration "}) = {}
    /\ Qualifiers(DeadNodes) # {}
    /\ FindingsOfKind("Unused function: ") # {}

(***************************************************************************)
(* The autofix engine alone: apply_fixes on a list of findings its caller  *)
(* made up (apply_fixes is a public function; nothing ties its findings    *)
(* to an analysis of the files they name).                                 *)
(***************************************************************************)

\* Most findings in a list handed to apply_fixes.
MaxFindings == 2

ImportBlockOpen == <<"import", " ", "(", "\n">>
BlockFmt == <<"\t", "\"", "fmt", "\"", "\n">>
BlockUtil == <<"\t", "\"", "x", "/", "util", "\"", "\n">>
BlockClose == <<")", "\n">>
ImportAliasFmt == <<"import", " ", "f", " ", "\"", "fmt", "\"", "\n">>
ImportSelf == <<"import", " ", "\"", "p", "\"", "\n">>

TextBlock == PackageLine \o ImportBlockOpen \o BlockFmt \o BlockUtil \o BlockClose
TextBlockAndSingle ==
    PackageLine \o ImportBlockOpen \o BlockFmt \o BlockClose \o ImportFmt
TextOtherBlockAndSingle ==
    PackageLine \o ImportBlockOpen \o BlockUtil \o BlockClose \o ImportFmt
TextAliasImport == PackageLine \o ImportAliasFmt
TextSelfImport == PackageLine \o ImportSelf
TextInternalAndSpaces ==
    PackageLine \o ImportInternal("p") \o FuncRun \o SpacesCall \o Close

\* The contents of the first file when apply_fixes is called.
FixTexts ==
    {TextBlock, TextBlockAndSingle, TextOtherBlockAndSingle, TextUnusedImport,
     TextAliasImport, TextSpaces, TextInternalAndSpaces, TextSelfImport}

QuotedFmt == <<"\"", "fmt", "\"">>

\* The findings a caller may hand over: every category, flagged fixable,
\* with the messages the fixes look for; line numbers inside the file and
\* beyond its end.
FindingPool ==
    {Issue(F1, 4, "Architecture", "Error", <<"Use tabs for indentation ">>, <<>>, TRUE),
     Issue(F1, 2, "Architecture", "Warning", <<"unused import ", "fmt">>, QuotedFmt, TRUE),
     Issue(F1, 2, "Architecture", "Error", <<"Circular dependency detected: ">>, <<>>, FALSE),
     Issue(F1, 2, "DeadCode", "Warning", <<"unused function ", "helper">>, <<>>, TRUE),
     Issue(F1, 3, "Style", "Info", <<"Use tabs for indentation ">>, <<>>, TRUE),
     Issue(F1, 2, "Syntax", "Error", <<"missing semicolon ">>, <<>>, TRUE),
     Issue(F1, 2, "Syntax", "Warning", <<"Line too long (">>, <<>>, TRUE),
     Issue(F2, 3, "Style", "Info", <<"Use tabs for indentation ">>, <<>>, TRUE)}
    \cup {Issue(F1, k, "DeadCode", "Warning", <<"unused import ", "fmt">>, QuotedFmt, TRUE) :
             k \in {2, 3, 5, 7}}

\* The lists of at most n findings.
RECURSIVE FindingLists(_)
FindingLists(n) ==
    IF n = 0 THEN {<<>>}
    ELSE LET shorter == FindingLists(n - 1)
         IN  shorter \cup
             {Append(l, i) : l \in {x \in shorter : Len(x) = n - 1}, i \in FindingPool}

InitFixes ==
    /\ \E t1 \in FixTexts, r1 \in BOOLEAN, w1 \in BOOLEAN :
          fs = (F1 :> [content |-> t1, readable |-> r1, writable |-> w1])
               @@ (F2 :> [content |-> TextSpaces, readable |-> TRUE, writable |-> TRUE])
    /\ marker = FALSE
    /\ config = DefaultConfig
    /\ snippet = <<>>
    /\ issues \in FindingLists(MaxFindings) \ {<<>>}
    /\ pc = "analysed"
    /\ cur = <<>>
    /\ cycle = <<>>
    /\ Locals0
    /\ runs = 1
    /\ prevFixed = <<>>
    /\ disturbed = FALSE

NextFixes ==
    \/ FixStart
    \/ ReadStep
    \/ FixStep
    \/ \E path \in DOMAIN fs : WriteStep(path)
    \/ FixDone

SpecFixes == InitFixes /\ [][NextFixes]_vars

\* The attempts made on findings of category Architecture.
ArchitectureAttempts ==
    {a \in 1..Len(attempts) : issues[attempts[a].issue].issue_type = "Architecture"}

\* The findings the architecture pass creates for a file, in any of the
\* orders it may create them in.
ArchitectureFindings(f) ==
    UNION {Range(found) : found \in architecture_analyze(fs0, fs0[f].content, f, config)}

\* C13: every finding the architecture pass creates is of category
\* Architecture and is not fixable, and an attempt of apply_fixes on a
\* finding of category Architecture fails, leaves the buffer as it was and
\* adds nothing to the fixed count, even when the finding is flagged fixable.
C13_ArchitectureNeverFixed ==
    /\ \A f \in DOMAIN fs0 : \A i \in ArchitectureFindings(f) :
          i.issue_type = "Architecture" /\ ~i.fix_available
    /\ \A a \in ArchitectureAttempts :
          ~attempts[a].fixed /\ attempts[a].after = attempts[a].before
    /\ fixed_count <=
           Cardinality({a \in 1..Len(attempts) : a \notin ArchitectureAttempts})

\* apply_fixes has returned after an attempt on a finding of category
\* Architecture that was flagged fixable and whose message and line a style
\* fix would have acted on, in a file the architecture pass has findings for.
C13_Witness ==
    /\ pc = "fixed"
    /\ \E a \in ArchitectureAttempts :
          /\ issues[attempts[a].issue].fix_available
          /\ fix_style_issue(issues[attempts[a].issue], attempts[a].before, config).fixed
    /\ \E f \in DOMAIN fs0 : ArchitectureFindings(f) # {}

\* The attempts made on unused-import findings.
ImportAttempts ==
    {a \in 1..Len(attempts) :
        /\ issues[attempts[a].issue].issue_type = "DeadCode"
        /\ Contains(issues[attempts[a].issue].message, <<"unused import ">>)}

\* What each of the three removals makes of buffer b for import text t and
\* reported line k, in the order block, single line, reported line.
Strategies(b, t, k) ==
    << RemoveFromBlock(b, t),
       RemoveSingleLine(b, t),
       IF k <= Len(Lines(b)) THEN RemoveIssueLine(b, k, t)
       ELSE [fixed |-> FALSE, content |-> b] >>

\* The outcome of the first removal that matches; a failure that leaves the
\* buffer alone if none does.
FirstMatch(b, st) ==
    IF \E n \in DOMAIN st : st[n].fixed
    THEN st[CHOOSE n \in DOMAIN st : st[n].fixed /\ \A m \in DOMAIN st : m < n => ~st[m].fixed]
    ELSE [fixed |-> FALSE, content |-> b]

\* C19: an attempt on an unused-import finding applies the first of the
\* three removals (from a multi-import block, of an exactly matching
\* single-line import, of the reported line if it contains the import text)
\* that matches, and succeeds; it fails, leaving the buffer unchanged, only
\* when none of the three matches.
C19_FirstMatchingStrategy ==
    \A a \in ImportAttempts :
        LET issue == issues[attempts[a].issue]
            b == attempts[a].before
        IN  [fixed |-> attempts[a].fixed, content |-> attempts[a].after]
                = FirstMatch(b, Strategies(b, TrimQuotes(issue.code), issue.line))

(***************************************************************************)
(* The text facade alone: one call of get_snippet on a text with a pair of *)
(* byte offsets its caller chose.                                          *)
(***************************************************************************)

\* The greatest byte offset handed to get_snippet.
MaxOffset == 4

\* The texts: one byte per symbol; "c3", "a9" are the two bytes of one character.
SnippetTexts == {<<>>, <<"x", "y", "\n">>, <<"x", "c3", "a9">>, <<"x", "y", "x", "y">>}

InitSnippet ==
    /\ \E t \in SnippetTexts :
          fs = (F1 :> [content |-> t, readable |-> TRUE, writable |-> TRUE])
    /\ marker = FALSE
    /\ config = DefaultConfig
    /\ \E s \in 0..MaxOffset, e \in 0..MaxOffset :
          snippet = [start_byte |-> s, end_byte |-> e, outcome |-> "pending", text |-> <<>>]
    /\ issues = <<>>
    /\ pc = "idle"
    /\ cur = F1
    /\ cycle = <<>>
    /\ Locals0
    /\ runs = 1
    /\ prevFixed = <<>>
    /\ disturbed = FALSE

\* The call of get_snippet.
GetSnippet ==
    /\ pc = "idle"
    /\ LET r == get_snippet(fs[cur].content, snippet.start_byte, snippet.end_byte)
       IN  /\ snippet' = [snippet EXCEPT !.outcome = r.kind, !.text = r.text]
           /\ pc' = r.kind
    /\ UNCHANGED <<fs, marker, config, issues, cur, cycle, locals, runs, prevFixed,
                   disturbed>>

NextSnippet == GetSnippet

SpecSnippet == InitSnippet /\ [][NextSnippet]_vars

\* The pair of offsets is a range of the text.
ValidRange(content, s, e) == s < Len(content) /\ e <= Len(content) /\ s <= e

\* C22: every call of get_snippet returns; for a pair of offsets that is not
\* a valid range of the text (start at or past the end, end past the end,
\* start greater than end) it returns the empty string, and for a valid
\* range the text between the two offsets.
C22_SnippetNeverFails ==
    pc # "idle" =>
        /\ snippet.outcome = "returned"
        /\ snippet.text =
              IF ValidRange(fs[cur].content, snippet.start_byte, snippet.end_byte)
              THEN [i \in 1..(snippet.end_byte - snippet.start_byte) |->
                       fs[cur].content[snippet.start_byte + i]]
              ELSE <<>>

(***************************************************************************)
(* run_analysis under every setting of the four enabled flags.             *)
(***************************************************************************)

TextAllFamilies ==
    PackageLine \o ImportInternal("p") \o FuncRun \o SpacesCall \o Close \o LongComment

\* The contents of the first file.
ToggleTexts == {TextAllFamilies, TextUnusedDecls, TextClean}

\* The configurations: the default with each choice of the enabled flags.
ToggleConfigs ==
    {[DefaultConfig EXCEPT !.syntax_enabled = sy, !.dead_code_enabled = dc,
                           !.style_enabled = st, !.architecture_enabled = ar] :
        sy \in BOOLEAN, dc \in BOOLEAN, st \in BOOLEAN, ar \in BOOLEAN}

InitToggles ==
    /\ \E t1 \in ToggleTexts, r2 \in BOOLEAN :
          fs = (F1 :> [content |-> t1, readable |-> TRUE, writable |-> TRUE])
               @@ (F2 :> [content |-> TextSpaces, readable |-> r2, writable |-> TRUE])
    /\ marker \in BOOLEAN
    /\ config \in ToggleConfigs
    /\ snippet = <<>>
    /\ issues = <<>>
    /\ pc = "idle"
    /\ cur = <<>>
    /\ cycle = <<>>
    /\ Locals0
    /\ runs = 1
    /\ prevFixed = <<>>
    /\ disturbed = FALSE

NextToggles ==
    \/ \E r \in Roots : RunStart(r)
    \/ \E path \in DOMAIN fs : WalkStep(path)
    \/ WalkDone

SpecToggles == InitToggles /\ [][NextToggles]_vars

Families == {"Syntax", "DeadCode", "Style", "Architecture"}

\* The enabled flag of a family.
Enabled(cfg, family) ==
    CASE family = "Syntax" -> cfg.syntax_enabled
      [] family = "DeadCode" -> cfg.dead_code_enabled
      [] family = "Style" -> cfg.style_enabled
      [] family = "Architecture" -> cfg.architecture_enabled

\* The finding lists a family makes for a file on its own.
FamilyFindings(family, f) ==
    CASE family = "Syntax" -> {syntax_analyze(fs[f].content, f, config)}
      [] family = "DeadCode" -> dead_code_analyze(fs[f].content, f, config)
      [] family = "Style" -> {style_analyze(fs[f].content, f, config)}
      [] family = "Architecture" -> architecture_analyze(fs, fs[f].content, f, config)

\* The findings of a category for a file among those run_analysis returned,
\* in their order.
Returned(family, f) ==
    SelectSeq(issues, LAMBDA i : i.issue_type = family /\ i.file_path = f)

\* C26: run_analysis returns no finding of the category of a family whose
\* enabled flag is false, and for each family whose flag is true and each
\* file analysed, exactly the findings the family makes for that file.
C26_DisabledFamilySilent ==
    pc = "analysed" =>
        \A family \in Families :
            IF Enabled(config, family)
            THEN \A f \in analysed : Returned(family, f) \in FamilyFindings(family, f)
            ELSE \A i \in 1..Len(issues) : issues[i].issue_type # family

\* run_analysis has returned findings for a file for which every family has
\* some, under a configuration that disables one family and enables another.
C26_Witness ==
    /\ pc = "analysed"
    /\ F1 \in analysed
    /\ \A family \in Families : <<>> \notin FamilyFindings(family, F1)
    /\ \E off \in Families, on \in Families :
          /\ ~Enabled(config, off)
          /\ Enabled(config, on)
          /\ \E i \in 1..Len(issues) : issues[i].issue_type = on
          /\ \A i \in 1..Len(issues) : issues[i].issue_type # off

(***************************************************************************)
(* Further claims about the autofix engine (checked under SpecFixes).      *)
(***************************************************************************)

\* The attempts made on findings of a file before attempt a.
EarlierOn(a) ==
    {b \in 1..(a - 1) :
        issues[attempts[b].issue].file_path = issues[attempts[a].issue].file_path}

\* The buffer attempt a must find: what the last earlier attempt on the file
\* left, or the content of the file if there is none.
BufferLeftFor(a) ==
    IF EarlierOn(a) = {} THEN fs0[issues[attempts[a].issue].file_path].content
    ELSE attempts[CHOOSE b \in EarlierOn(a) : \A c \in EarlierOn(a) : c <= b].after

\* The transformation of the category of a finding, applied at the line the
\* finding records to the lines the buffer splits into.
Transformed(issue, buffer) ==
    CASE issue.issue_type = "Syntax" -> fix_syntax_issue(issue, buffer)
      [] issue.issue_type = "DeadCode" -> fix_dead_code_issue(issue, buffer)
      [] issue.issue_type = "Style" -> fix_style_issue(issue, buffer, config)
      [] issue.issue_type = "Architecture" -> [fixed |-> FALSE, content |-> buffer]

\* C27: the attempts are made on the fixable findings in the order of the
\* list; each is made on the buffer the earlier attempts on its file left,
\* and is the transformation of its category at the line number the finding
\* records, whatever the earlier attempts did to the lines.
C27_FixesInOrderOnOneBuffer ==
    /\ \A a, b \in 1..Len(attempts) : a < b => attempts[a].issue < attempts[b].issue
    /\ \A a \in 1..Len(attempts) :
          /\ issues[attempts[a].issue].fix_available
          /\ attempts[a].before = BufferLeftFor(a)
          /\ [fixed |-> attempts[a].fixed, content |-> attempts[a].after]
                 = Transformed(issues[attempts[a].issue], attempts[a].before)
    /\ pc \in {"write", "fixed"} =>
          \A i \in 1..Len(issues) :
              (issues[i].fix_available /\ fs0[issues[i].file_path].readable) =>
                  \E a \in 1..Len(attempts) : attempts[a].issue = i

\* apply_fixes has returned after two attempts on one file, the first of
\* which took lines out of the buffer, so that the line the second finding
\* records lies beyond the end of the buffer it is applied to.
C27_Witness ==
    /\ pc = "fixed"
    /\ Len(attempts) = 2
    /\ EarlierOn(2) = {1}
    /\ attempts[1].fixed
    /\ attempts[2].before # fs0[issues[attempts[2].issue].file_path].content
    /\ issues[attempts[2].issue].line <= Len(Lines(attempts[1].before))
    /\ issues[attempts[2].issue].line > Len(Lines(attempts[2].before))

\* C29: an attempt that fails leaves the buffer as it was, also for a
\* finding whose line number is greater than the line count of the buffer.
C29_FailedFixLeavesBuffer ==
    \A a \in 1..Len(attempts) :
        ~attempts[a].fixed => attempts[a].after = attempts[a].before

\* apply_fixes has returned after two failed attempts on findings of two of
\* the categories Syntax, DeadCode and Style, one of them for a line beyond
\* the end of the buffer and one for a line of the buffer.
C29_Witness ==
    /\ pc = "fixed"
    /\ \E a, b \in 1..Len(attempts) :
          /\ ~attempts[a].fixed /\ ~attempts[b].fixed
          /\ issues[attempts[a].issue].issue_type # issues[attempts[b].issue].issue_type
          /\ {issues[attempts[a].issue].issue_type, issues[attempts[b].issue].issue_type}
                 \subseteq {"Syntax", "DeadCode", "Style"}
          /\ issues[attempts[a].issue].line > Len(Lines(attempts[a].before))
          /\ issues[attempts[b].issue].line <= Len(Lines(attempts[b].before))

\* The fixable findings of the list.
Fixable == {i \in 1..Len(issues) : issues[i].fix_available}

\* C30: the count of apply_fixes is never below 0 and never above the number
\* of fixable findings of the list, whatever reads and writes fail.
C30_CountWithinBounds ==
    fixed_count >= 0 /\ fixed_count <= Cardinality(Fixable)

\* apply_fixes has returned a count above 0 after the write of a file
\* failed that has more fixable findings than fixes were counted.
C30_Witness ==
    /\ pc = "fixed"
    /\ fixed_count > 0
    /\ \E w \in 1..Len(writes) :
          ~writes[w].ok /\ issue_count_in_file(writes[w].file) > fixed_count

====
